---------------------------- MODULE Spec2Model ----------------------------
(***************************************************************************)
(* A model of the news aggregation, analysis and retrieval pipeline of the *)
(* news_analysis repository (src/langchain):                               *)
(*                                                                         *)
(*   - the deduplication ledger of NewsAggregator (news_sources.py) and    *)
(*     its persisted "processed_urls" collection (firebase_store.py);      *)
(*   - NewsAggregator.get_all_news / fetch_newsapi / fetch_rss;            *)
(*   - NewsVectorDB.hybrid_search and get_similar_articles (vector_db.py); *)
(*   - analyze_news and process_long_content (news_analysis_chain.py),     *)
(*     the News record (news.py) and analyze_stock_news (main.py);         *)
(*   - the entity relationships (firebase_store.py), sequential and        *)
(*     concurrent;                                                         *)
(*   - the notification task and the WebSocket ConnectionManager (api.py). *)
(*                                                                         *)
(* Each subsystem has its own specification (SpecLedger, SpecAgg,          *)
(* SpecHybrid, SpecAnalysis, SpecRelations, SpecRss, SpecSimilar,          *)
(* SpecChunk, SpecPipeline, SpecRace, SpecNotify, SpecWs); the variables   *)
(* of the other subsystems stay at their initial values.                   *)
(***************************************************************************)
EXTENDS Integers, Sequences, FiniteSets, TLC

VARIABLES
    \* ---- NewsAggregator: the in-memory ledger (news_sources.py:44-45)
    fetched_urls,            \* self.fetched_urls: set of normalized URLs
    url_content_hash_map,    \* self.url_content_hash_map: normalized URL -> hash
    \* ---- Firestore collection "processed_urls" and the clock behind utcnow()
    processed_urls,          \* document id -> document
    clock,
    \* ---- history of the ledger (not program state)
    gen,                     \* how many aggregators have been constructed so far
    ledgerLog,               \* the calls of _is_duplicate that returned False
    loadPoint,               \* Len(ledgerLog) when this aggregator was constructed
    loadOk,                  \* whether its _load_fetched_urls query answered
    lastCall,                \* the latest _is_duplicate call of this aggregator
    \* ---- one call of get_all_news / fetch_newsapi (news_sources.py:244-343, 539-578)
    pc,                      \* where the call is
    seen,                    \* how many entries of data["articles"] the first loop has taken
    pending,                 \* future_to_article: future -> basic_article
    results,                 \* fetch_newsapi's results list
    returned,                \* what get_all_news returned
    raised,                  \* the exception that left get_all_news, "none" if none did
    accepted,                \* history: the candidates _is_duplicate accepted in this call
    \* ---- NewsVectorDB and one call of hybrid_search (vector_db.py:109-162)
    index,                   \* self.vector_store: its ranking of the stored documents
    index_up,                \* whether the store answers the first and the second search
    request,                 \* the arguments of the call: query, filters, k, alpha
    hresult,                 \* the outcome of the call
    \* ---- Firestore collections and the vector store fed by analyze_news
    news_articles,           \* collection "news_articles": document id -> document
    vector_docs,             \* the Documents analyze_news stored in the vector store
    entity_relationships,    \* collection "entity_relationships": document id -> document
    \* ---- one call of analyze_stock_news (main.py:40-77)
    apc,                     \* where the call is
    news_list,               \* what get_all_news returned to it
    max_articles,            \* its max_articles argument
    apos,                    \* the article the loop is at
    aresults,                \* its results list
    alog,                    \* history: the outcome of analyze_news for each article
    \* ---- history of the relationship calls (not program state)
    relLog,                  \* the save_entity_relationship calls made so far
    relQuery,                \* the latest get_related_stocks call and its answer
    \* ---- one call of fetch_rss and its _process_feed tasks (news_sources.py:345-417)
    rpc,                     \* where fetch_rss is
    feeds,                   \* feed url -> the links of the entries of that feed
    wpc,                     \* feed url -> where the task of that feed is
    wpos,                    \* feed url -> the entry its task is at
    warticle,                \* feed url -> the article its task has fetched for the entry
    wresults,                \* feed url -> the results list of its task
    collected,               \* the futures fetch_rss has taken from as_completed
    rss_all_results,         \* fetch_rss's all_results
    rss_returned,            \* what fetch_rss returned
    rss_accepted,            \* history: the _is_duplicate calls of the tasks that returned False
    \* ---- one call of get_similar_articles (vector_db.py:210-243)
    similar_request,         \* its arguments: article_id, k
    similar_result,          \* its outcome
    \* ---- one call of process_long_content (news_analysis_chain.py:138-181)
    lpc,                     \* where the call is
    ldepth,                  \* how many frames of process_long_content are on the stack
    ltext,                   \* len(content) of the innermost frame
    lchunks,                 \* len(chunks) of the innermost frame
    lsummaries,              \* how many chunks its loop has summarized
    lcombined,               \* the length of the summaries so far
    lraised,                 \* the exception that left the call, "none" if none did
    \* ---- history of the runs of analyze_stock_news on one aggregator
    runs,                    \* how many runs have begun
    registered_before,       \* the ledger's URLs when the current run began
    \* ---- concurrent calls of save_entity_relationship (firebase_store.py:171-201)
    cpc,                     \* caller -> where its call is
    cargs,                   \* caller -> the arguments of its call
    cexists,                 \* caller -> doc.exists as its doc_ref.get() saw it
    \* ---- the notification task (api.py:594-668)
    notifications,           \* collection "notifications": document id -> document
    npc,                     \* where send_notifications is
    work,                    \* the (user, symbol, news) rounds left in this iteration
    polls,                   \* how many iterations have begun
    pushed,                  \* history: the messages sent over WebSockets
    \* ---- the WebSocket ConnectionManager (api.py:74-93, 581-590)
    active_connections,      \* self.active_connections: client_id -> socket
    ws_state,                \* socket -> "new", "open", "closing" (the peer has closed and
                             \*   its handler has not seen it yet) or "gone"
    ws_client,               \* socket -> the client_id of its endpoint call
    ws_sent                  \* history: the send_text calls made

ledgerVars == <<fetched_urls, url_content_hash_map, processed_urls, clock,
                gen, ledgerLog, loadPoint, loadOk, lastCall>>

aggVars == <<pc, seen, pending, results, returned, raised, accepted>>

hybridVars == <<index, index_up, request, hresult>>

analysisVars == <<news_articles, vector_docs, entity_relationships,
                  apc, news_list, max_articles, apos, aresults, alog,
                  relLog, relQuery>>

rssVars == <<rpc, feeds, wpc, wpos, warticle, wresults, collected, rss_all_results,
             rss_returned, rss_accepted>>

similarVars == <<similar_request, similar_result>>

chunkVars == <<lpc, ldepth, ltext, lchunks, lsummaries, lcombined, lraised>>

pipelineVars == <<runs, registered_before>>

raceVars == <<cpc, cargs, cexists>>

notifyVars == <<notifications, npc, work, polls, pushed>>

wsVars == <<active_connections, ws_state, ws_client, ws_sent>>

vars == <<ledgerVars, aggVars, hybridVars, analysisVars, rssVars, similarVars,
         chunkVars,
         pipelineVars,
         raceVars,
         notifyVars,
         wsVars>>

-----------------------------------------------------------------------------
(* Bounds of the model *)

\* How many registrations and restarts a behaviour holds at most, together.
MaxLedgerEvents == 4
\* The number of persisted entries an aggregator preloads: the model's
\* stand-in for the 1000 of news_sources.py:65, scaled so that entries do
\* fall out of the preload window.
PreloadLimit == 2
\* self.max_news, the result budget: the model's stand-in for the 10 of
\* news_sources.py:48, scaled so that the budget is reached.
max_news == 2
\* How many entries data["articles"] holds at most.
MaxArticles == 3
\* The largest k a hybrid_search call asks for.
MaxK == 2
\* How many documents the vector store holds at most.
MaxIndexed == 3
\* The largest cosine distance the store reports, in units of its resolution.
MaxDist == 2
\* How many articles a batch of analyze_stock_news holds at most, and the
\* largest max_articles.
MaxBatch == 2
\* How many save_entity_relationship calls a behaviour holds at most.
MaxSaves == 3
\* The largest limit of a get_related_stocks call.
MaxLimit == 2
\* How many entries a feed holds at most.
MaxEntries == 2
\* The longest content and the longest summary of one chunk, in units of 200
\* characters, beyond the chunking threshold and the chunk size.
MaxContentLen == 22
MaxSummaryLen == 6
\* How many frames of process_long_content the interpreter's stack holds: the
\* model's stand-in for sys.getrecursionlimit().
RecursionLimit == 3
\* How many runs of analyze_stock_news a behaviour holds at most.
MaxRuns == 2
\* How many iterations of the notification loop a behaviour holds at most.
MaxPolls == 2
\* How many WebSockets a behaviour opens and how many messages it sends at most.
MaxSockets == 3
MaxSends == 2

-----------------------------------------------------------------------------
(* URLs, as urlparse splits them *)

Url(path, query, fragment) ==
    [scheme |-> "https", netloc |-> "a.com", path |-> path, query |-> query,
     fragment |-> fragment]

Urls ==
    { Url("/1", "", ""), Url("/1", "utm=1", "top"), Url("/2", "", ""), Url("/3", "", "") }

\* The mutant of _normalize_url that keeps the query string.
NormalizeUrl_KeepQuery(url) == [url EXCEPT !.fragment = ""]

\* _normalize_url: f"{scheme}://{netloc}{path}", itself a URL with neither
\* query string nor fragment.
NormalizeUrl(url) == [url EXCEPT !.query = "", !.fragment = ""]

\* What two URLs that differ in query string or fragment only have in common.
Resource(url) == <<url.scheme, url.netloc, url.path>>

-----------------------------------------------------------------------------
(* Content fingerprints *)

Contents == {"c1", "c2", "c3"}

\* _generate_content_hash: sha256(content).hexdigest(), one digest per content
\* (abbreviated to four hexadecimal digits; c1 and c2 agree in three of them).
GenerateContentHash(content) ==
    CASE content = "c1" -> <<1, 2, 3, 4>>
      [] content = "c2" -> <<1, 2, 3, 5>>
      [] OTHER          -> <<6, 7, 8, 9>>

\* The mutant of _hash_similarity that leaves the last character out of the count.
HashSimilarity_OffByOne(hash1, hash2) ==
    IF Len(hash1) # Len(hash2)
    THEN <<0, 1>>
    ELSE <<Cardinality({i \in 1..(Len(hash1) - 1) : hash1[i] = hash2[i]}), Len(hash1)>>

\* _hash_similarity: the fraction <<matches, len>> of positions that agree,
\* 0 for hashes of different lengths.
HashSimilarity(hash1, hash2) ==
    IF Len(hash1) # Len(hash2)
    THEN <<0, 1>>
    ELSE <<Cardinality({i \in 1..Len(hash1) : hash1[i] = hash2[i]}), Len(hash1)>>

\* self._hash_similarity(content_hash, existing_hash) > 0.9
NearDuplicate(hash1, hash2) ==
    LET s == HashSimilarity(hash1, hash2) IN s[1] * 10 > 9 * s[2]

-----------------------------------------------------------------------------
(* The document store behind the ledger *)

\* hashlib.md5(url.encode()).hexdigest(): one document id per URL string.
Md5(url) == <<"md5", url>>

\* FirebaseClient.save_analysis: set(..., merge=True) under the document id,
\* with "timestamp" added from utcnow().
SaveAnalysis(coll, article_id, analysis_result, now) ==
    LET doc == [analysis_result EXCEPT !.timestamp = now]
    IN  IF article_id \in DOMAIN coll
        THEN [coll EXCEPT ![article_id] = doc]
        ELSE coll @@ (article_id :> doc)

\* FirebaseClient.get_latest_analyses: order_by("timestamp", DESCENDING).limit(limit)
GetLatestAnalyses(coll, limit) ==
    { coll[i] : i \in { j \in DOMAIN coll :
        Cardinality({ k \in DOMAIN coll : coll[k].timestamp > coll[j].timestamp }) < limit } }

\* _save_processed_url: the document written for a registered URL; a failure
\* of the store is printed and swallowed (saved = FALSE), nothing is written.
SaveProcessedUrl(coll, url, content_hash, now, saved) ==
    IF saved
    THEN SaveAnalysis(coll, Md5(url),
                      [url |-> url, content_hash |-> content_hash,
                       processed_at |-> now, timestamp |-> now], now)
    ELSE coll

\* The mutant of _load_fetched_urls that asks for one entry too few.
LoadFetchedUrls_OneShort(coll, loaded) ==
    IF loaded
    THEN { d.url : d \in GetLatestAnalyses(coll, PreloadLimit - 1) }
    ELSE {}

\* _load_fetched_urls: the URLs of the latest entries; a failure of the query
\* is printed and swallowed (loaded = FALSE), the set stays empty.
LoadFetchedUrls(coll, loaded) ==
    IF loaded
    THEN { d.url : d \in GetLatestAnalyses(coll, PreloadLimit) }
    ELSE {}

-----------------------------------------------------------------------------
(* The ledger *)

\* _is_duplicate, lines 104-115: the URL is registered, or some registered
\* content hash is a near-duplicate of this content's hash.
IsDuplicate(url, content) ==
    \/ NormalizeUrl(url) \in fetched_urls
    \/ \E n \in DOMAIN url_content_hash_map :
          NearDuplicate(GenerateContentHash(content), url_content_hash_map[n])

\* _is_duplicate, lines 117-120: the registration of a non-duplicate.
RegisteredUrls(url) == fetched_urls \cup {NormalizeUrl(url)}

RegisteredHashes(url, content) ==
    LET n == NormalizeUrl(url)
        h == GenerateContentHash(content)
    IN  IF n \in DOMAIN url_content_hash_map
        THEN [url_content_hash_map EXCEPT ![n] = h]
        ELSE url_content_hash_map @@ (n :> h)

\* _is_duplicate, lines 117-120, on the program's state.
Register(url, content, saved) ==
    /\ fetched_urls' = RegisteredUrls(url)
    /\ url_content_hash_map' = RegisteredHashes(url, content)
    /\ processed_urls' = SaveProcessedUrl(processed_urls, NormalizeUrl(url),
                                          GenerateContentHash(content), clock, saved)
    /\ clock' = clock + 1

NoCall == [made |-> FALSE]

\* One call of _is_duplicate(url, content) on the current aggregator.
IsDuplicateCall(url, content, saved) ==
    /\ gen + Len(ledgerLog) < MaxLedgerEvents
    /\ IF IsDuplicate(url, content)
       THEN /\ lastCall' = [made |-> TRUE, url |-> url, content |-> content, result |-> TRUE]
            /\ UNCHANGED <<fetched_urls, url_content_hash_map, processed_urls, clock, ledgerLog>>
       ELSE /\ Register(url, content, saved)
            /\ ledgerLog' = Append(ledgerLog,
                   [resource |-> Resource(url), content |-> content, persisted |-> saved])
            /\ lastCall' = [made |-> TRUE, url |-> url, content |-> content, result |-> FALSE]
    /\ UNCHANGED <<gen, loadPoint, loadOk>>
    /\ UNCHANGED aggVars
    /\ UNCHANGED hybridVars
    /\ UNCHANGED analysisVars
    /\ UNCHANGED rssVars
    /\ UNCHANGED similarVars
    /\ UNCHANGED chunkVars
    /\ UNCHANGED pipelineVars
    /\ UNCHANGED raceVars
    /\ UNCHANGED notifyVars
    /\ UNCHANGED wsVars

\* The process ends and a new NewsAggregator is constructed (__init__).
Restart(loaded) ==
    /\ gen + Len(ledgerLog) < MaxLedgerEvents
    /\ gen' = gen + 1
    /\ fetched_urls' = LoadFetchedUrls(processed_urls, loaded)
    /\ url_content_hash_map' = << >>
    /\ loadPoint' = Len(ledgerLog)
    /\ loadOk' = loaded
    /\ lastCall' = NoCall
    /\ UNCHANGED <<processed_urls, clock, ledgerLog>>
    /\ UNCHANGED aggVars
    /\ UNCHANGED hybridVars
    /\ UNCHANGED analysisVars
    /\ UNCHANGED rssVars
    /\ UNCHANGED similarVars
    /\ UNCHANGED chunkVars
    /\ UNCHANGED pipelineVars
    /\ UNCHANGED raceVars
    /\ UNCHANGED notifyVars
    /\ UNCHANGED wsVars

InitLedgerState ==
    /\ fetched_urls = {}
    /\ url_content_hash_map = << >>
    /\ processed_urls = << >>
    /\ clock = 1
    /\ gen = 0
    /\ ledgerLog = << >>
    /\ loadPoint = 0
    /\ loadOk = TRUE
    /\ lastCall = NoCall

InitAggState ==
    /\ pc = "idle"
    /\ seen = 0
    /\ pending = << >>
    /\ results = << >>
    /\ returned = << >>
    /\ raised = "none"
    /\ accepted = << >>

\* No hybrid_search call has been made: an empty store and default arguments
\* (vector_db.py:109-110).
NoResult == [state |-> "idle", path |-> "none", docs |-> << >>,
             error |-> "none", logged |-> "none"]

InitHybridState ==
    /\ index = << >>
    /\ index_up = <<TRUE, TRUE>>
    /\ request = [query |-> << >>, filters |-> {}, k |-> 1, alpha |-> <<1, 2>>]
    /\ hresult = NoResult

\* No relationship query has been made.
NoQuery == [made |-> FALSE]

\* Empty collections, and no analyze_stock_news call under way.
InitAnalysisState ==
    /\ news_articles = << >>
    /\ vector_docs = << >>
    /\ entity_relationships = << >>
    /\ apc = "idle"
    /\ news_list = << >>
    /\ max_articles = 1
    /\ apos = 1
    /\ aresults = << >>
    /\ alog = << >>
    /\ relLog = << >>
    /\ relQuery = NoQuery

\* No fetch_rss call under way.
InitRssState ==
    /\ rpc = "idle"
    /\ feeds = << >>
    /\ wpc = << >>
    /\ wpos = << >>
    /\ warticle = << >>
    /\ wresults = << >>
    /\ collected = {}
    /\ rss_all_results = << >>
    /\ rss_returned = << >>
    /\ rss_accepted = << >>

\* No get_similar_articles call has been made.
NoSimilar == [state |-> "idle", articles |-> << >>]

InitSimilarState ==
    /\ similar_request = [article_id |-> "none", k |-> 1]
    /\ similar_result = NoSimilar

\* No call of process_long_content has been made.
InitChunkState ==
    /\ lpc = "idle"
    /\ ldepth = 0
    /\ ltext = 0
    /\ lchunks = 0
    /\ lsummaries = 0
    /\ lcombined = 0
    /\ lraised = "none"

\* No run of analyze_stock_news has begun.
InitPipelineState ==
    /\ runs = 0
    /\ registered_before = {}

\* The callers of save_entity_relationship that may run at the same time.
Callers == { 1, 2 }

\* No caller is inside save_entity_relationship.
InitRaceState ==
    /\ cpc = [c \in Callers |-> "idle"]
    /\ cargs = [c \in Callers |-> << >>]
    /\ cexists = [c \in Callers |-> FALSE]

\* The notification task has not begun its first iteration.
InitNotifyState ==
    /\ notifications = << >>
    /\ npc = "sleep"
    /\ work = << >>
    /\ polls = 0
    /\ pushed = << >>

\* The sockets of a behaviour, numbered in the order they connect.
Sockets == 1..MaxSockets

\* No WebSocket has connected (api.py:95).
InitWsState ==
    /\ active_connections = << >>
    /\ ws_state = [s \in Sockets |-> "new"]
    /\ ws_client = [s \in Sockets |-> "none"]
    /\ ws_sent = << >>

InitLedger ==
    /\ InitLedgerState
    /\ InitAggState
    /\ InitHybridState
    /\ InitAnalysisState
    /\ InitRssState
    /\ InitSimilarState
    /\ InitChunkState
    /\ InitPipelineState
    /\ InitRaceState
    /\ InitNotifyState
    /\ InitWsState

NextLedger ==
    \/ \E url \in Urls, content \in Contents, saved \in BOOLEAN :
          IsDuplicateCall(url, content, saved)
    \/ \E loaded \in BOOLEAN : Restart(loaded)

SpecLedger == InitLedger /\ [][NextLedger]_vars

-----------------------------------------------------------------------------
(* The NewsAPI response and the pages behind it *)

None == "None"

\* article.get("publishedAt", ""): absent or empty, no timestamp at all, and
\* two ISO 8601 timestamps.
PublishedAtValues == {"", "n/a", "2024-05-01T00:00:00Z", "2024-05-02T00:00:00+00:00"}

\* article.get("url") of an entry without "url": None, falsy like "".
NoUrl == [scheme |-> "", netloc |-> "", path |-> "", query |-> "", fragment |-> ""]

\* len(content) of f"{title}\n{description}".strip(): c3 is a short snippet.
ContentLen(content) == IF content = "c3" THEN 50 ELSE 250

\* The title and description NewsAPI holds for a URL: long ones for /1 and /2,
\* a short one for /3.
Snippet(url) ==
    CASE url.path = "/1" -> "c1"
      [] url.path = "/2" -> "c2"
      [] OTHER           -> "c3"

\* The entries of data["articles"]: well-formed ones, one without "url", and
\* one whose "source" is null.
ApiArticles ==
    { [url |-> uc[1], content |-> uc[2], publishedAt |-> t, source |-> "dict"] :
        uc \in { <<u, c>> \in Urls \X Contents : c = Snippet(u) \/ (c = "c3" /\ u.path = "/2") },
        t \in PublishedAtValues }
    \cup { [url |-> NoUrl, content |-> "c1", publishedAt |-> "", source |-> "dict"],
           [url |-> Url("/2", "", ""), content |-> "c2", publishedAt |-> "", source |-> None] }

\* What fetch_full_article returns: None after any error (ok = FALSE), else
\* the page's text (its own, or a copy of the text behind c2) with the publish
\* date newspaper extracted from it.
FullArticleOutcomes ==
    { [ok |-> FALSE] }
    \cup { [ok |-> TRUE, text |-> c, publish_date |-> d] :
             c \in {"c2", "c3"}, d \in {"2024-05-02T00:00:00"} }

\* basic_article (lines 287-297).
BasicArticle(article) ==
    [content |-> article.content,
     metadata |-> [published_at |-> article.publishedAt, url |-> article.url]]

\* The dict fetch_full_article returns (lines 212-236): its metadata has
\* "publish_date" and no "published_at".
FullArticle(url, outcome) ==
    [content |-> outcome.text,
     metadata |-> [publish_date |-> outcome.publish_date, url |-> url]]

-----------------------------------------------------------------------------
(* get_all_news: sort and truncate *)

\* datetime.min.replace(tzinfo=utc)
MinDate == 0

\* published_at.replace("Z", "+00:00")
ReplaceZ(published_at) ==
    IF published_at = "2024-05-01T00:00:00Z"
    THEN "2024-05-01T00:00:00+00:00"
    ELSE published_at

\* datetime.fromisoformat(s).astimezone(utc), as days since 2024-04-30;
\* ok = FALSE when it raises.
FromIsoFormat(s) ==
    CASE s = "2024-05-01T00:00:00+00:00" -> [ok |-> TRUE, value |-> 1]
      [] s = "2024-05-02T00:00:00+00:00" -> [ok |-> TRUE, value |-> 2]
      [] OTHER -> [ok |-> FALSE, value |-> MinDate]

\* The mutant of get_published_date that forgets the Z suffix.
GetPublishedDate_NoReplace(article) ==
    LET metadata == IF "metadata" \in DOMAIN article THEN article.metadata ELSE << >>
        published_at == IF "published_at" \in DOMAIN metadata
                        THEN metadata.published_at ELSE ""
        parsed == FromIsoFormat(published_at)
    IN  IF published_at # "" /\ parsed.ok THEN parsed.value ELSE MinDate

\* get_published_date (lines 563-573).
GetPublishedDate(article) ==
    LET metadata == IF "metadata" \in DOMAIN article THEN article.metadata ELSE << >>
        published_at == IF "published_at" \in DOMAIN metadata
                        THEN metadata.published_at ELSE ""
        parsed == FromIsoFormat(ReplaceZ(published_at))
    IN  IF published_at # "" /\ parsed.ok THEN parsed.value ELSE MinDate

\* One step of the stable descending sort: a goes behind every element whose
\* key is not smaller.
InsertByRecency(sorted, a) ==
    LET k == Cardinality({ i \in 1..Len(sorted) :
                             GetPublishedDate(sorted[i]) >= GetPublishedDate(a) })
    IN  SubSeq(sorted, 1, k) \o <<a>> \o SubSeq(sorted, k + 1, Len(sorted))

RECURSIVE SortByRecency(_)
\* all_results.sort(key=get_published_date, reverse=True): stable.
SortByRecency(list) ==
    IF list = << >>
    THEN << >>
    ELSE InsertByRecency(SortByRecency(SubSeq(list, 1, Len(list) - 1)), list[Len(list)])

\* The mutant of the slice that keeps the whole list.
Truncate_KeepAll(list, n) == list

\* list[:n]
Truncate(list, n) == SubSeq(list, 1, IF Len(list) < n THEN Len(list) ELSE n)

\* article["source"] = "NewsAPI"
Tag(article) == ("source" :> "NewsAPI") @@ article

\* get_all_news after the fetch (lines 549-578); rss_results and
\* twitter_results are empty lists in the code.
GetAllNewsResult(newsapi_results) ==
    LET all_results == [i \in 1..Len(newsapi_results) |-> Tag(newsapi_results[i])]
    IN  Truncate(SortByRecency(all_results), max_news)

\* The except clauses of fetch_newsapi (lines 336-341).
Handled(exc) == exc \in {"RequestException", "ValueError", "KeyError"}

\* What the request of lines 263-271 raises: a timeout or connection error,
\* a body that is no JSON, a status other than 200 (no exception: return []),
\* and a JSON body whose "articles" is null (the for loop raises TypeError).
ResponseFailures == {"timeout", "invalid_json", "http_error", "articles_null"}

RaisedBy(failure) ==
    CASE failure = "timeout"       -> "RequestException"
      [] failure = "invalid_json"  -> "ValueError"
      [] failure = "articles_null" -> "TypeError"
      [] OTHER                     -> "none"

-----------------------------------------------------------------------------
(* get_all_news, step by step *)

\* After the first loop: the second loop runs if there is a future to wait for.
AfterSubmit == IF DOMAIN pending = {} THEN "return" ELSE "collect"

\* get_all_news is called and NewsAPI answers 200 with a list of articles.
StartGetAllNews ==
    /\ pc = "idle"
    /\ pc' = "submit"
    /\ UNCHANGED <<seen, pending, results, returned, raised, accepted>>
    /\ UNCHANGED ledgerVars
    /\ UNCHANGED hybridVars
    /\ UNCHANGED analysisVars
    /\ UNCHANGED rssVars
    /\ UNCHANGED similarVars
    /\ UNCHANGED chunkVars
    /\ UNCHANGED pipelineVars
    /\ UNCHANGED raceVars
    /\ UNCHANGED notifyVars
    /\ UNCHANGED wsVars

\* get_all_news is called and the request of fetch_newsapi fails.
FetchFails(failure) ==
    /\ pc = "idle"
    /\ LET exc == RaisedBy(failure)
       IN  IF exc = "none" \/ Handled(exc)
           THEN /\ returned' = GetAllNewsResult(<< >>)
                /\ pc' = "done"
                /\ UNCHANGED raised
           ELSE /\ raised' = exc
                /\ pc' = "raised"
                /\ UNCHANGED returned
    /\ UNCHANGED <<seen, pending, results, accepted>>
    /\ UNCHANGED ledgerVars
    /\ UNCHANGED hybridVars
    /\ UNCHANGED analysisVars
    /\ UNCHANGED rssVars
    /\ UNCHANGED similarVars
    /\ UNCHANGED chunkVars
    /\ UNCHANGED pipelineVars
    /\ UNCHANGED raceVars
    /\ UNCHANGED notifyVars
    /\ UNCHANGED wsVars

\* One iteration of the first loop (lines 277-314) on the next article.
TakeArticle(article, saved) ==
    /\ pc = "submit"
    /\ seen < MaxArticles
    /\ seen' = seen + 1
    /\ UNCHANGED <<returned, gen, ledgerLog, loadPoint, loadOk, lastCall>>
    /\ IF article.url = NoUrl \/ NormalizeUrl(article.url) \in fetched_urls
       THEN UNCHANGED <<pc, pending, results, raised, accepted,
                        fetched_urls, url_content_hash_map, processed_urls, clock>>
       ELSE IF article.source = None
       THEN \* article.get("source", {}).get("name", ...) on None: AttributeError
            /\ pc' = "raised"
            /\ raised' = "AttributeError"
            /\ UNCHANGED <<pending, results, accepted,
                           fetched_urls, url_content_hash_map, processed_urls, clock>>
       ELSE IF ContentLen(BasicArticle(article).content) < 200
       THEN /\ pending' = pending @@ ((seen + 1) :> BasicArticle(article))
            /\ UNCHANGED <<pc, results, raised, accepted,
                           fetched_urls, url_content_hash_map, processed_urls, clock>>
       ELSE IF ~IsDuplicate(article.url, BasicArticle(article).content)
       THEN /\ Register(article.url, BasicArticle(article).content, saved)
            /\ results' = Append(results, BasicArticle(article))
            /\ accepted' = Append(accepted, [article |-> BasicArticle(article),
                                             publishedAt |-> article.publishedAt])
            /\ pc' = IF Len(results') >= max_news THEN AfterSubmit ELSE pc
            /\ UNCHANGED <<pending, raised>>
       ELSE UNCHANGED <<pc, pending, results, raised, accepted,
                        fetched_urls, url_content_hash_map, processed_urls, clock>>
    /\ UNCHANGED hybridVars
    /\ UNCHANGED analysisVars
    /\ UNCHANGED rssVars
    /\ UNCHANGED similarVars
    /\ UNCHANGED chunkVars
    /\ UNCHANGED pipelineVars
    /\ UNCHANGED raceVars
    /\ UNCHANGED notifyVars
    /\ UNCHANGED wsVars

\* The first loop has taken every article.
EndOfArticles ==
    /\ pc = "submit"
    /\ pc' = AfterSubmit
    /\ UNCHANGED <<seen, pending, results, returned, raised, accepted>>
    /\ UNCHANGED ledgerVars
    /\ UNCHANGED hybridVars
    /\ UNCHANGED analysisVars
    /\ UNCHANGED rssVars
    /\ UNCHANGED similarVars
    /\ UNCHANGED chunkVars
    /\ UNCHANGED pipelineVars
    /\ UNCHANGED raceVars
    /\ UNCHANGED notifyVars
    /\ UNCHANGED wsVars

\* One iteration of the second loop (lines 317-332): as_completed hands over
\* any of the futures.
CollectFuture(future, outcome, saved) ==
    /\ pc = "collect"
    /\ future \in DOMAIN pending
    /\ pending' = [f \in DOMAIN pending \ {future} |-> pending[f]]
    /\ UNCHANGED <<seen, returned, raised, gen, ledgerLog, loadPoint, loadOk, lastCall>>
    /\ LET basic_article == pending[future]
           url == basic_article.metadata.url
       IN  IF outcome.ok /\ ~IsDuplicate(url, outcome.text)
           THEN /\ Register(url, outcome.text, saved)
                /\ results' = Append(results, FullArticle(url, outcome))
                /\ accepted' = Append(accepted,
                       [article |-> FullArticle(url, outcome),
                        publishedAt |-> basic_article.metadata.published_at])
                /\ pc' = IF Len(results') >= max_news \/ DOMAIN pending' = {}
                         THEN "return" ELSE "collect"
           ELSE /\ pc' = IF DOMAIN pending' = {} THEN "return" ELSE "collect"
                /\ UNCHANGED <<results, accepted,
                               fetched_urls, url_content_hash_map, processed_urls, clock>>
    /\ UNCHANGED hybridVars
    /\ UNCHANGED analysisVars
    /\ UNCHANGED rssVars
    /\ UNCHANGED similarVars
    /\ UNCHANGED chunkVars
    /\ UNCHANGED pipelineVars
    /\ UNCHANGED raceVars
    /\ UNCHANGED notifyVars
    /\ UNCHANGED wsVars

\* fetch_newsapi returns results[: self.max_news] (line 334) and get_all_news
\* tags, sorts and truncates (lines 549-578).
ReturnNews ==
    /\ pc = "return"
    /\ returned' = GetAllNewsResult(Truncate(results, max_news))
    /\ pc' = "done"
    /\ UNCHANGED <<seen, pending, results, raised, accepted>>
    /\ UNCHANGED ledgerVars
    /\ UNCHANGED hybridVars
    /\ UNCHANGED analysisVars
    /\ UNCHANGED rssVars
    /\ UNCHANGED similarVars
    /\ UNCHANGED chunkVars
    /\ UNCHANGED pipelineVars
    /\ UNCHANGED raceVars
    /\ UNCHANGED notifyVars
    /\ UNCHANGED wsVars

\* The ledger entries an aggregator may have preloaded when it was constructed.
PreloadedStores ==
    { << >>,
      Md5(Url("/1", "", "")) :>
          [url |-> Url("/1", "", ""), content_hash |-> GenerateContentHash("c1"),
           processed_at |-> 0, timestamp |-> 0] }

InitAgg ==
    /\ processed_urls \in PreloadedStores
    /\ fetched_urls = LoadFetchedUrls(processed_urls, TRUE)
    /\ url_content_hash_map = << >>
    /\ clock = 1
    /\ gen = 0
    /\ ledgerLog = << >>
    /\ loadPoint = 0
    /\ loadOk = TRUE
    /\ lastCall = NoCall
    /\ InitAggState
    /\ InitHybridState
    /\ InitAnalysisState
    /\ InitRssState
    /\ InitSimilarState
    /\ InitChunkState
    /\ InitPipelineState
    /\ InitRaceState
    /\ InitNotifyState
    /\ InitWsState

NextAgg ==
    \/ StartGetAllNews
    \/ \E failure \in ResponseFailures : FetchFails(failure)
    \/ \E article \in ApiArticles : TakeArticle(article, TRUE)
    \/ EndOfArticles
    \/ \E future \in DOMAIN pending, outcome \in FullArticleOutcomes :
          CollectFuture(future, outcome, TRUE)
    \/ ReturnNews

SpecAgg == InitAgg /\ [][NextAgg]_vars

-----------------------------------------------------------------------------
(* NewsVectorDB.hybrid_search (vector_db.py:109-162) *)

\* A text is the sequence of its characters; the texts of the model are over
\* the characters a, b, c, A and the blank.

\* A stored langchain Document: page_content and metadata (lines 99-102).
Doc(page_content, source) ==
    [page_content |-> page_content, metadata |-> [source |-> source]]

\* The documents the store may hold: "A", "ab c c", "c", "b a".
Docs ==
    { Doc(<<"A">>, "NewsAPI"),
      Doc(<<"a", "b", " ", "c", " ", "c">>, "RSS"),
      Doc(<<"c">>, "NewsAPI"),
      Doc(<<"b", " ", "a">>, "RSS") }

\* The queries of the model: "a b", "A ", "".
Queries == { <<"a", " ", "b">>, <<"A", " ">>, << >> }

\* The filters argument: None, or a dict of required metadata values, as the
\* set of its items.
Filters == { {}, {<<"source", "NewsAPI">>} }

\* The alpha argument as a fraction <<numerator, denominator>>: 0.0, 0.5, 1.0.
Alphas == { <<0, 1>>, <<1, 2>>, <<1, 1>> }

\* The store's answer to a query: the stored documents ranked by cosine
\* distance to the query, nearest first ("hnsw:space": "cosine", lines 45-55;
\* the score of similarity_search_with_score is that distance).
Rankings ==
    UNION { { r \in [1..n -> [doc : Docs, score : 0..MaxDist]] :
                /\ \A i, j \in 1..n : i < j => r[i].doc # r[j].doc
                /\ \A i, j \in 1..n : i < j => r[i].score <= r[j].score }
            : n \in 0..MaxIndexed }

\* Whether a document passes the metadata filter of a search.
MatchesFilter(doc, filters) ==
    \A f \in filters : f[1] \in DOMAIN doc.metadata /\ doc.metadata[f[1]] = f[2]

\* vector_store.similarity_search_with_score(query, k, filter) (lines 114-118):
\* the k nearest documents that pass the filter, with their distances.
SimilaritySearchWithScore(ranking, k, filters) ==
    Truncate(SelectSeq(ranking, LAMBDA e : MatchesFilter(e.doc, filters)), k)

\* vector_store.similarity_search(query, k, filter) (lines 158-162): the same
\* search without the scores.
SimilaritySearch(ranking, k, filters) ==
    LET found == SimilaritySearchWithScore(ranking, k, filters)
    IN  [i \in 1..Len(found) |-> found[i].doc]

\* str.lower() (lines 125, 128).
Lower(s) == [i \in 1..Len(s) |-> IF s[i] = "A" THEN "a" ELSE s[i]]

RECURSIVE SplitFrom(_, _, _)
\* str.split() reading s with the word cur in progress and the words out done.
SplitFrom(s, cur, out) ==
    IF s = << >>
    THEN IF cur = << >> THEN out ELSE Append(out, cur)
    ELSE IF Head(s) = " "
         THEN SplitFrom(Tail(s), << >>, IF cur = << >> THEN out ELSE Append(out, cur))
         ELSE SplitFrom(Tail(s), Append(cur, Head(s)), out)

\* str.split() without arguments (lines 125, 132): the maximal runs of
\* non-blank characters.
Split(s) == SplitFrom(s, << >>, << >>)

\* term in content (line 130): term occurs in content as a substring.
Contains(term, content) ==
    \E i \in 1..(Len(content) - Len(term) + 1) :
        SubSeq(content, i, i + Len(term) - 1) = term

\* query_terms = set(query.lower().split()) (line 125).
QueryTerms(query) ==
    LET words == Split(Lower(query)) IN { words[i] : i \in 1..Len(words) }

\* term_matches (line 130).
TermMatches(query_terms, content) ==
    Cardinality({ term \in query_terms : Contains(term, content) })

\* Fractions <<numerator, denominator>> with a positive denominator stand for
\* the floats of lines 132-147.
RatLess(a, b) == a[1] * b[2] < b[1] * a[2]

RatAdd(a, b) == <<a[1] * b[2] + b[1] * a[2], a[2] * b[2]>>

RatMul(a, b) == <<a[1] * b[1], a[2] * b[2]>>

\* a / b for b > 0.
RatDiv(a, b) == <<a[1] * b[2], a[2] * b[1]>>

\* max(scores) of a non-empty list (lines 137-138).
RatMax(scores) ==
    LET i == CHOOSE i \in 1..Len(scores) :
                 \A j \in 1..Len(scores) : ~RatLess(scores[i], scores[j])
    IN  scores[i]

\* keyword_score of one document (lines 127-133).
KeywordScore(query_terms, doc) ==
    LET content == Lower(doc.page_content)
    IN  <<TermMatches(query_terms, content), Len(Split(content)) + 1>>

\* The mutant of the sort step that puts candidate i before the candidates of
\* equal combined score.
InsertByScore_BeforeEquals(sorted, i, combined_scores) ==
    LET p == Cardinality({ j \in 1..Len(sorted) :
                             RatLess(combined_scores[i], combined_scores[sorted[j]]) })
    IN  SubSeq(sorted, 1, p) \o <<i>> \o SubSeq(sorted, p + 1, Len(sorted))

\* One step of the stable descending sort of line 151: candidate i goes behind
\* every candidate whose combined score is not smaller.
InsertByScore(sorted, i, combined_scores) ==
    LET p == Cardinality({ j \in 1..Len(sorted) :
                             ~RatLess(combined_scores[sorted[j]], combined_scores[i]) })
    IN  SubSeq(sorted, 1, p) \o <<i>> \o SubSeq(sorted, p + 1, Len(sorted))

RECURSIVE SortByScore(_, _)
\* results.sort(key=lambda x: x[1], reverse=True) (line 151) over the first n
\* candidates, as the sequence of their positions.
SortByScore(n, combined_scores) ==
    IF n = 0 THEN << >>
    ELSE InsertByScore(SortByScore(n - 1, combined_scores), n, combined_scores)

\* The ranking steps of hybrid_search after the first search (lines 120-154):
\* the documents returned, or the exception raised.
HybridRanking(semantic_results, query, k, alpha) ==
    LET n == Len(semantic_results)
        documents == [i \in 1..n |-> semantic_results[i].doc]
        semantic_scores == [i \in 1..n |-> <<semantic_results[i].score, 1>>]
        query_terms == QueryTerms(query)
        keyword_scores == [i \in 1..n |-> KeywordScore(query_terms, documents[i])]
        max_semantic == IF n > 0 THEN RatMax(semantic_scores) ELSE <<1, 1>>
        max_keyword == IF n > 0 THEN RatMax(keyword_scores) ELSE <<1, 1>>
    IN  IF n > 0 /\ (max_semantic[1] = 0 \/ max_keyword[1] = 0)
        THEN [ok |-> FALSE, error |-> "ZeroDivisionError", docs |-> << >>]
        ELSE LET combined_scores ==
                     [i \in 1..n |->
                         RatAdd(RatMul(alpha, RatDiv(semantic_scores[i], max_semantic)),
                                RatMul(<<alpha[2] - alpha[1], alpha[2]>>,
                                       RatDiv(keyword_scores[i], max_keyword)))]
                 order == Truncate(SortByScore(n, combined_scores), k)
             IN  [ok |-> TRUE, error |-> "none",
                  docs |-> [i \in 1..Len(order) |-> documents[order[i]]]]

\* The try block of hybrid_search (lines 112-154).
HybridAttempt(ranking, up, query, filters, k, alpha) ==
    IF up
    THEN HybridRanking(SimilaritySearchWithScore(ranking, k * 2, filters), query, k, alpha)
    ELSE [ok |-> FALSE, error |-> "similarity_search_with_score failed", docs |-> << >>]

\* The mutant of the except block that searches with the try block's k*2.
FallbackSearch_DoubleK(ranking, up, k, filters, e) ==
    IF up
    THEN [state |-> "returned", path |-> "fallback",
          docs |-> SimilaritySearch(ranking, k * 2, filters),
          error |-> "none", logged |-> e]
    ELSE [state |-> "raised", path |-> "fallback", docs |-> << >>,
          error |-> "similarity_search failed", logged |-> e]

\* The except block of hybrid_search (lines 155-162): logs e and returns what
\* similarity_search returns; what that search raises leaves the call.
FallbackSearch(ranking, up, k, filters, e) ==
    IF up
    THEN [state |-> "returned", path |-> "fallback",
          docs |-> SimilaritySearch(ranking, k, filters),
          error |-> "none", logged |-> e]
    ELSE [state |-> "raised", path |-> "fallback", docs |-> << >>,
          error |-> "similarity_search failed", logged |-> e]

\* hybrid_search(query, filters, k, alpha) (lines 109-162).
HybridSearch(ranking, up, query, filters, k, alpha) ==
    LET attempt == HybridAttempt(ranking, up[1], query, filters, k, alpha)
    IN  IF attempt.ok
        THEN [state |-> "returned", path |-> "hybrid", docs |-> attempt.docs,
              error |-> "none", logged |-> "none"]
        ELSE FallbackSearch(ranking, up[2], k, filters, attempt.error)

\* One call of hybrid_search.
HybridSearchCall ==
    /\ hresult.state = "idle"
    /\ hresult' = HybridSearch(index, index_up, request.query, request.filters,
                               request.k, request.alpha)
    /\ UNCHANGED <<index, index_up, request>>
    /\ UNCHANGED ledgerVars
    /\ UNCHANGED aggVars
    /\ UNCHANGED analysisVars
    /\ UNCHANGED rssVars
    /\ UNCHANGED similarVars
    /\ UNCHANGED chunkVars
    /\ UNCHANGED pipelineVars
    /\ UNCHANGED raceVars
    /\ UNCHANGED notifyVars
    /\ UNCHANGED wsVars

InitHybrid ==
    /\ InitLedgerState
    /\ InitAggState
    /\ InitAnalysisState
    /\ InitRssState
    /\ InitSimilarState
    /\ InitChunkState
    /\ InitPipelineState
    /\ InitRaceState
    /\ InitNotifyState
    /\ InitWsState
    /\ index \in Rankings
    /\ index_up \in BOOLEAN \X BOOLEAN
    /\ request \in [query : Queries, filters : Filters, k : 1..MaxK, alpha : Alphas]
    /\ hresult = NoResult

NextHybrid == HybridSearchCall

SpecHybrid == InitHybrid /\ [][NextHybrid]_vars

-----------------------------------------------------------------------------
(* analyze_news (news_analysis_chain.py:184-226), the News record (news.py)
   and the entity relationships (firebase_store.py:171-217) *)

\* hashlib.sha256(content.encode()).hexdigest(): one digest per string.
Sha256(content) == <<"sha256", content>>

\* The articles handed to analyze_news: dicts with "content", "metadata" and,
\* for some callers, "title".
AnalysisArticles ==
    { [content |-> "c1", metadata |-> [url |-> "u1"]],
      [content |-> "c1", title |-> "t", metadata |-> [url |-> "u2"]],
      [content |-> "c2", metadata |-> [url |-> "u1"]] }

\* len(content) > 4000 (line 189): of the contents of the model, c2 is long.
NeedsChunking(content) == content = "c2"

\* What process_long_content may return for one long content: its summaries
\* come from a language model and differ from run to run.
Summaries == { "s1", "s2" }

\* The names of entities are texts.
EntityA == <<"A">>
EntityB == <<"B">>
EntityP == <<"P">>

\* A parsed answer of the analysis chain (JsonOutputParser returns the dict the
\* model wrote, lines 196-197).
FullResult ==
    [subject |-> EntityA,
     sentiment |-> [compound_score |-> 1, category |-> "positive"],
     entities |-> << [name |-> EntityB, type |-> "company", relevance |-> 1],
                     [name |-> EntityA, type |-> "ticker", relevance |-> 1],
                     [name |-> EntityP, type |-> "person", relevance |-> 1] >>,
     topics |-> <<"Earnings">>]

\* An answer that is JSON but lacks the "sentiment" object.
ResultWithoutSentiment ==
    [subject |-> EntityA,
     entities |-> << [name |-> EntityB, type |-> "company", relevance |-> 1] >>,
     topics |-> <<"Earnings">>]

\* What the collaborators of one analyze_news call do: the summary of a long
\* content ("error": the summary chain raises), the answer of the analysis
\* chain ("error": it raises, the answer is not schema-conformant JSON),
\* whether the document store and the vector store accept their writes, and
\* whether the document store accepts the relationship writes that follow.
AnalysisEnvs ==
    [summary : Summaries \cup {"error"},
     llm : {"full", "no_sentiment", "no_subject", "error"},
     save_ok : BOOLEAN, index_ok : BOOLEAN, rel_ok : BOOLEAN]

\* An answer that is JSON but lacks the "subject".
ResultWithoutSubject ==
    [sentiment |-> [compound_score |-> 1, category |-> "positive"],
     entities |-> << [name |-> EntityB, type |-> "company", relevance |-> 1] >>,
     topics |-> <<"Earnings">>]

\* The answer of the analysis chain that env.llm names.
ChainResult(llm) ==
    IF llm = "full" THEN FullResult
    ELSE IF llm = "no_sentiment" THEN ResultWithoutSentiment
    ELSE ResultWithoutSubject

\* The values News.__init__ puts in place of a missing "sentiment" object
\* (news.py:25-27): compound_score 0, category "neutral".
DefaultSentiment == [compound_score |-> 0, category |-> "neutral"]

\* The mutant of News that derives the id from the processed content.
News_IdFromProcessed(article, processed_content, analysis_result) ==
    [id |-> Sha256(processed_content),
     title |-> IF "title" \in DOMAIN article THEN article.title ELSE "",
     content |-> article.content,
     processed_content |-> processed_content,
     sentiment |-> IF "sentiment" \in DOMAIN analysis_result
                   THEN analysis_result.sentiment ELSE DefaultSentiment,
     subject |-> IF "subject" \in DOMAIN analysis_result
                 THEN analysis_result.subject ELSE << >>,
     entities |-> IF "entities" \in DOMAIN analysis_result
                  THEN analysis_result.entities ELSE << >>,
     url |-> article.metadata.url]

\* News.__init__ (news.py:10-83) for an article whose "processed_content" has
\* been set: the fields of the record the model follows.
News(article, processed_content, analysis_result) ==
    [id |-> Sha256(article.content),
     title |-> IF "title" \in DOMAIN article THEN article.title ELSE "",
     content |-> article.content,
     processed_content |-> processed_content,
     sentiment |-> IF "sentiment" \in DOMAIN analysis_result
                   THEN analysis_result.sentiment ELSE DefaultSentiment,
     subject |-> IF "subject" \in DOMAIN analysis_result
                 THEN analysis_result.subject ELSE << >>,
     entities |-> IF "entities" \in DOMAIN analysis_result
                  THEN analysis_result.entities ELSE << >>,
     url |-> article.metadata.url]

\* No News object: analyze_news returned None.
NoNews == [id |-> <<"none">>]

\* The outcome of analyze_news that fails before anything is written.
FailedEarly(failure, processed_content) ==
    [returned |-> "None", failure |-> failure, doc |-> NoNews,
     processed_content |-> processed_content, saved |-> FALSE, indexed |-> FALSE]

\* analyze_news(article) (lines 184-226) with collaborators that behave as env
\* says: what it returns, the step that raised, and what it wrote on the way.
AnalyzeNews(article, env) ==
    LET content == article.content
        chunked == NeedsChunking(content)
        processed_content == IF chunked THEN env.summary ELSE content
    IN  IF chunked /\ env.summary = "error"
        THEN FailedEarly("process_long_content", "none")
        ELSE IF env.llm = "error"
        THEN FailedEarly("analysis_chain", processed_content)
        ELSE LET result == ChainResult(env.llm)
                 doc == News(article, processed_content, result)
             IN  IF ~env.save_ok
                 THEN FailedEarly("save_analysis", processed_content)
                 ELSE IF "sentiment" \notin DOMAIN result
                 THEN [returned |-> "None", failure |-> "KeyError", doc |-> doc,
                       processed_content |-> processed_content,
                       saved |-> TRUE, indexed |-> FALSE]
                 ELSE IF ~env.index_ok
                 THEN [returned |-> "None", failure |-> "store_documents", doc |-> doc,
                       processed_content |-> processed_content,
                       saved |-> TRUE, indexed |-> FALSE]
                 ELSE [returned |-> "doc", failure |-> "none", doc |-> doc,
                       processed_content |-> processed_content,
                       saved |-> TRUE, indexed |-> TRUE]

\* f"{entity_a}:{entity_b}:{relationship_type}" (firebase_store.py:175).
FormatRelationship(entity_a, entity_b, relationship_type) ==
    entity_a \o <<":">> \o entity_b \o <<":">> \o relationship_type

\* firestore.ArrayUnion([article_id]) applied to the stored array (line 186).
ArrayUnion(array, article_id) ==
    IF \E i \in 1..Len(array) : array[i] = article_id
    THEN array ELSE Append(array, article_id)

\* doc_ref.update({...}) of lines 184-188 on an existing document.
UpdateRelationship(coll, relationship_id, strength, article_id) ==
    [coll EXCEPT ![relationship_id] =
        [@ EXCEPT !.strength = strength,
                  !.articles = ArrayUnion(@, article_id)]]

\* doc_ref.set({...}) of lines 191-199: the document is written whole,
\* whatever the collection holds under that id.
SetRelationship(coll, relationship_id, entity_a, entity_b, relationship_type, strength, article_id) ==
    [id \in DOMAIN coll \cup {relationship_id} |->
        IF id = relationship_id
        THEN [entity_a |-> entity_a, entity_b |-> entity_b,
              relationship_type |-> relationship_type,
              strength |-> strength, articles |-> <<article_id>>]
        ELSE coll[id]]

\* FirebaseClient.save_entity_relationship (lines 171-201) run without
\* interruption: the collection after the call.
SaveEntityRelationship(coll, entity_a, entity_b, relationship_type, strength, article_id) ==
    LET relationship_id == Md5(FormatRelationship(entity_a, entity_b, relationship_type))
    IN  IF relationship_id \in DOMAIN coll
        THEN UpdateRelationship(coll, relationship_id, strength, article_id)
        ELSE SetRelationship(coll, relationship_id, entity_a, entity_b,
                             relationship_type, strength, article_id)

\* NewsVectorDB.store_documents (vector_db.py:84-107): add_texts is given the
\* texts and their metadata and no ids, so the store adds one entry per text.
StoreDocuments(store, documents) == store \o documents

\* relationship_type of the relationships analyze_stock_news saves (line 68).
MentionedWith == <<"mentioned_with">>

\* The save_entity_relationship calls of analyze_stock_news for one analyzed
\* article (main.py:62-71): one per company or ticker other than the subject.
RelationshipCalls(doc) ==
    LET wanted == SelectSeq(doc.entities,
                            LAMBDA entity : /\ entity.type \in {"company", "ticker"}
                                            /\ entity.name # doc.subject)
    IN  [i \in 1..Len(wanted) |->
            [entity_a |-> doc.subject, entity_b |-> wanted[i].name,
             relationship_type |-> MentionedWith,
             strength |-> wanted[i].relevance, article_id |-> doc.id]]

RECURSIVE ApplySaves(_, _)
\* The collection after a sequence of save_entity_relationship calls.
ApplySaves(coll, calls) ==
    IF calls = << >> THEN coll
    ELSE ApplySaves(SaveEntityRelationship(coll, Head(calls).entity_a, Head(calls).entity_b,
                                           Head(calls).relationship_type,
                                           Head(calls).strength, Head(calls).article_id),
                    Tail(calls))

\* News.to_dict (news.py:85-105): the dict of the fields the model follows.
ToDict(doc) ==
    [id |-> doc.id, title |-> doc.title, content |-> doc.content,
     processed_content |-> doc.processed_content,
     sentiment |-> doc.sentiment, subject |-> doc.subject,
     entities |-> doc.entities, url |-> doc.url]

\* The articles analyze_stock_news goes through: news_list[:max_articles].
Batch == Truncate(news_list, max_articles)

\* analyze_stock_news (main.py:40-49): the news list arrives.
StartAnalyzeStockNews(list, n) ==
    /\ apc = "idle"
    /\ apc' = "loop"
    /\ news_list' = list
    /\ max_articles' = n
    /\ apos' = 1
    /\ aresults' = << >>
    /\ UNCHANGED <<news_articles, vector_docs, entity_relationships, alog, relLog, relQuery>>
    /\ UNCHANGED ledgerVars
    /\ UNCHANGED aggVars
    /\ UNCHANGED hybridVars
    /\ UNCHANGED rssVars
    /\ UNCHANGED similarVars
    /\ UNCHANGED chunkVars
    /\ UNCHANGED pipelineVars
    /\ UNCHANGED raceVars
    /\ UNCHANGED notifyVars
    /\ UNCHANGED wsVars

\* One round of the loop of analyze_stock_news (lines 50-75): analyze_news for
\* the article at apos, then the relationships of its entities. An exception
\* of a relationship write ends the round (line 74).
AnalyzeArticle(env) ==
    /\ apc = "loop"
    /\ apos <= Len(Batch)
    /\ LET news == Batch[apos]
           r == AnalyzeNews(news, env)
           calls == IF r.returned = "doc" /\ env.rel_ok
                    THEN RelationshipCalls(r.doc) ELSE << >>
       IN  /\ news_articles' =
                 IF r.saved
                 THEN SaveAnalysis(news_articles, r.doc.id,
                                   r.doc @@ ("timestamp" :> apos), apos)
                 ELSE news_articles
           /\ vector_docs' =
                 IF r.indexed
                 THEN StoreDocuments(vector_docs,
                          <<[page_content |-> r.processed_content, id |-> r.doc.id]>>)
                 ELSE vector_docs
           /\ aresults' = IF r.returned = "doc"
                          THEN Append(aresults, ToDict(r.doc)) ELSE aresults
           /\ entity_relationships' = ApplySaves(entity_relationships, calls)
           /\ relLog' = relLog \o calls
           /\ alog' = Append(alog, [article |-> news, returned |-> r.returned,
                                    failure |-> r.failure, saved |-> r.saved,
                                    answer |-> IF r.failure = "process_long_content"
                                               THEN "none" ELSE env.llm,
                                    calls |-> calls,
                                    processed_content |-> r.processed_content,
                                    doc |-> r.doc])
    /\ apos' = apos + 1
    /\ UNCHANGED <<apc, news_list, max_articles, relQuery>>
    /\ UNCHANGED ledgerVars
    /\ UNCHANGED aggVars
    /\ UNCHANGED hybridVars
    /\ UNCHANGED rssVars
    /\ UNCHANGED similarVars
    /\ UNCHANGED chunkVars
    /\ UNCHANGED pipelineVars
    /\ UNCHANGED raceVars
    /\ UNCHANGED notifyVars
    /\ UNCHANGED wsVars

\* The mutant of analyze_stock_news that returns at the first failed article.
ReturnResults_AtFirstFailure ==
    /\ apc = "loop"
    /\ \/ apos > Len(Batch)
       \/ alog # << >> /\ alog[Len(alog)].returned = "None"
    /\ apc' = "done"
    /\ UNCHANGED <<news_articles, vector_docs, entity_relationships,
                   news_list, max_articles, apos, aresults, alog, relLog, relQuery>>
    /\ UNCHANGED ledgerVars
    /\ UNCHANGED aggVars
    /\ UNCHANGED hybridVars
    /\ UNCHANGED rssVars
    /\ UNCHANGED similarVars
    /\ UNCHANGED chunkVars
    /\ UNCHANGED pipelineVars
    /\ UNCHANGED raceVars
    /\ UNCHANGED notifyVars
    /\ UNCHANGED wsVars

\* analyze_stock_news returns results (line 77).
ReturnResults ==
    /\ apc = "loop"
    /\ apos > Len(Batch)
    /\ apc' = "done"
    /\ UNCHANGED <<news_articles, vector_docs, entity_relationships,
                   news_list, max_articles, apos, aresults, alog, relLog, relQuery>>
    /\ UNCHANGED ledgerVars
    /\ UNCHANGED aggVars
    /\ UNCHANGED hybridVars
    /\ UNCHANGED rssVars
    /\ UNCHANGED similarVars
    /\ UNCHANGED chunkVars
    /\ UNCHANGED pipelineVars
    /\ UNCHANGED raceVars
    /\ UNCHANGED notifyVars
    /\ UNCHANGED wsVars

\* The news lists get_all_news may hand over.
NewsLists ==
    UNION { [1..n -> AnalysisArticles] : n \in 0..MaxBatch }

InitAnalysis ==
    /\ InitLedgerState
    /\ InitAggState
    /\ InitHybridState
    /\ InitAnalysisState
    /\ InitRssState
    /\ InitSimilarState
    /\ InitChunkState
    /\ InitPipelineState
    /\ InitRaceState
    /\ InitNotifyState
    /\ InitWsState

NextAnalysis ==
    \/ \E list \in NewsLists, n \in 1..MaxBatch : StartAnalyzeStockNews(list, n)
    \/ \E env \in AnalysisEnvs : AnalyzeArticle(env)
    \/ ReturnResults

SpecAnalysis == InitAnalysis /\ [][NextAnalysis]_vars

-----------------------------------------------------------------------------
(* The relationship calls on their own: save_entity_relationship
   (firebase_store.py:171-201), get_entity_relationships (203-217) and
   get_related_stocks (main.py:113-132) *)

\* The entity pairs of the calls: (A, B), (A:B, B) and (A, B:B).
RelationshipPairs ==
    { <<EntityA, EntityB>>,
      <<<<"A", ":", "B">>, EntityB>>,
      <<EntityA, <<"B", ":", "B">>>> }

\* The entities a query may name.
RelationshipEntities ==
    { pair[1] : pair \in RelationshipPairs } \cup { pair[2] : pair \in RelationshipPairs }

Strengths == { 1, 2 }

ArticleIds == { "a1", "a2" }

\* One call of save_entity_relationship.
SaveEntityRelationshipCall(entity_a, entity_b, relationship_type, strength, article_id) ==
    /\ apc = "idle"
    /\ Len(relLog) < MaxSaves
    /\ entity_relationships' =
           SaveEntityRelationship(entity_relationships, entity_a, entity_b,
                                  relationship_type, strength, article_id)
    /\ relLog' = Append(relLog, [entity_a |-> entity_a, entity_b |-> entity_b,
                                 relationship_type |-> relationship_type,
                                 strength |-> strength, article_id |-> article_id])
    /\ relQuery' = NoQuery
    /\ UNCHANGED <<news_articles, vector_docs, apc, news_list, max_articles,
                   apos, aresults, alog>>
    /\ UNCHANGED ledgerVars
    /\ UNCHANGED aggVars
    /\ UNCHANGED hybridVars
    /\ UNCHANGED rssVars
    /\ UNCHANGED similarVars
    /\ UNCHANGED chunkVars
    /\ UNCHANGED pipelineVars
    /\ UNCHANGED raceVars
    /\ UNCHANGED notifyVars
    /\ UNCHANGED wsVars

\* The orders in which a query may stream the documents of a set.
Streams(docs) ==
    { stream \in [1..Cardinality(docs) -> docs] :
          \A i, j \in 1..Cardinality(docs) : i # j => stream[i] # stream[j] }

\* One step of the stable descending sort of line 215: doc goes behind every
\* document whose strength is not smaller.
InsertByStrength(sorted, doc) ==
    LET p == Cardinality({ i \in 1..Len(sorted) : sorted[i].strength >= doc.strength })
    IN  SubSeq(sorted, 1, p) \o <<doc>> \o SubSeq(sorted, p + 1, Len(sorted))

RECURSIVE SortByStrength(_)
\* all_docs.sort(key=lambda x: x.get("strength", 0), reverse=True) (line 215).
SortByStrength(all_docs) ==
    IF all_docs = << >> THEN << >>
    ELSE InsertByStrength(SortByStrength(SubSeq(all_docs, 1, Len(all_docs) - 1)),
                          all_docs[Len(all_docs)])

\* The documents of the collection that a where(field, "==", entity) query
\* matches (lines 206-207).
Where(coll, field, entity) ==
    { coll[d] : d \in { e \in DOMAIN coll : coll[e][field] = entity } }

\* get_entity_relationships (lines 203-217) for the streams docs_a and docs_b
\* of its two queries.
GetEntityRelationships(docs_a, docs_b, limit) ==
    Truncate(SortByStrength(docs_a \o docs_b), limit)

\* get_related_stocks (main.py:113-132) over the relationships it got.
GetRelatedStocks(relationships, symbol) ==
    [i \in 1..Len(relationships) |->
        [symbol |-> IF relationships[i].entity_b = symbol
                    THEN relationships[i].entity_a ELSE relationships[i].entity_b,
         relationship_type |-> relationships[i].relationship_type,
         strength |-> relationships[i].strength,
         article_count |-> Len(relationships[i].articles)]]

\* One call of get_related_stocks(symbol, limit).
GetRelatedStocksCall(symbol, limit, docs_a, docs_b) ==
    /\ apc = "idle"
    /\ docs_a \in Streams(Where(entity_relationships, "entity_a", symbol))
    /\ docs_b \in Streams(Where(entity_relationships, "entity_b", symbol))
    /\ LET relationships == GetEntityRelationships(docs_a, docs_b, limit)
       IN  relQuery' = [made |-> TRUE, symbol |-> symbol, limit |-> limit,
                        relationships |-> relationships,
                        related |-> GetRelatedStocks(relationships, symbol)]
    /\ UNCHANGED <<news_articles, vector_docs, entity_relationships, apc, news_list,
                   max_articles, apos, aresults, alog, relLog>>
    /\ UNCHANGED ledgerVars
    /\ UNCHANGED aggVars
    /\ UNCHANGED hybridVars
    /\ UNCHANGED rssVars
    /\ UNCHANGED similarVars
    /\ UNCHANGED chunkVars
    /\ UNCHANGED pipelineVars
    /\ UNCHANGED raceVars
    /\ UNCHANGED notifyVars
    /\ UNCHANGED wsVars

InitRelations ==
    /\ InitLedgerState
    /\ InitAggState
    /\ InitHybridState
    /\ InitAnalysisState
    /\ InitRssState
    /\ InitSimilarState
    /\ InitChunkState
    /\ InitPipelineState
    /\ InitRaceState
    /\ InitNotifyState
    /\ InitWsState

NextRelations ==
    \/ \E pair \in RelationshipPairs, strength \in Strengths, article_id \in ArticleIds :
          SaveEntityRelationshipCall(pair[1], pair[2], MentionedWith, strength, article_id)
    \/ \E symbol \in RelationshipEntities, limit \in 1..MaxLimit :
          \E docs_a \in Streams(Where(entity_relationships, "entity_a", symbol)),
             docs_b \in Streams(Where(entity_relationships, "entity_b", symbol)) :
              GetRelatedStocksCall(symbol, limit, docs_a, docs_b)

SpecRelations == InitRelations /\ [][NextRelations]_vars

-----------------------------------------------------------------------------
(* fetch_rss and its _process_feed tasks (news_sources.py:345-417) *)

\* The feed_urls of the call: two feeds, one task each.
FeedUrls == { "feed1", "feed2" }

\* len(self.default_rss_feeds) (lines 50-56).
NumDefaultRssFeeds == 1

\* The links the entries of the feeds may carry.
RssLinks == { Url("/1", "", ""), Url("/1", "utm=1", "top"), Url("/2", "", "") }

\* What feedparser.parse may give for one feed: the links of its entries.
FeedEntries == UNION { [1..n -> RssLinks] : n \in 1..MaxEntries }

\* No article fetched for the current entry.
NoArticle == [content |-> "none"]

\* Where the task of feed f goes after the entry it is at (line 378).
AfterEntry(f) == IF wpos[f] + 1 > Len(feeds[f]) THEN "done" ELSE "entry"

\* The task of feed f leaves its current entry for the next one.
SkipEntry(f) ==
    /\ wpc' = [wpc EXCEPT ![f] = AfterEntry(f)]
    /\ wpos' = [wpos EXCEPT ![f] = @ + 1]
    /\ warticle' = [warticle EXCEPT ![f] = NoArticle]

\* _process_feed, lines 378-393: the task of feed f looks its next link up in
\* fetched_urls and fetches the article.
ProcessEntry(f, outcome) ==
    /\ rpc \in {"collect", "exit"}
    /\ wpc[f] = "entry"
    /\ LET link == feeds[f][wpos[f]]
       IN  IF NormalizeUrl(link) \in fetched_urls \/ ~outcome.ok
           THEN SkipEntry(f)
           ELSE /\ wpc' = [wpc EXCEPT ![f] = "check"]
                /\ warticle' = [warticle EXCEPT ![f] = FullArticle(link, outcome)]
                /\ UNCHANGED wpos
    /\ UNCHANGED <<rpc, feeds, wresults, collected, rss_all_results,
                   rss_returned, rss_accepted>>
    /\ UNCHANGED ledgerVars
    /\ UNCHANGED aggVars
    /\ UNCHANGED hybridVars
    /\ UNCHANGED analysisVars
    /\ UNCHANGED similarVars
    /\ UNCHANGED chunkVars
    /\ UNCHANGED pipelineVars
    /\ UNCHANGED raceVars
    /\ UNCHANGED notifyVars
    /\ UNCHANGED wsVars

\* _is_duplicate, lines 104-115, run by the task of feed f: the two lookups.
CheckDuplicate(f) ==
    /\ rpc \in {"collect", "exit"}
    /\ wpc[f] = "check"
    /\ IF IsDuplicate(feeds[f][wpos[f]], warticle[f].content)
       THEN SkipEntry(f)
       ELSE /\ wpc' = [wpc EXCEPT ![f] = "register"]
            /\ UNCHANGED <<wpos, warticle>>
    /\ UNCHANGED <<rpc, feeds, wresults, collected, rss_all_results,
                   rss_returned, rss_accepted>>
    /\ UNCHANGED ledgerVars
    /\ UNCHANGED aggVars
    /\ UNCHANGED hybridVars
    /\ UNCHANGED analysisVars
    /\ UNCHANGED similarVars
    /\ UNCHANGED chunkVars
    /\ UNCHANGED pipelineVars
    /\ UNCHANGED raceVars
    /\ UNCHANGED notifyVars
    /\ UNCHANGED wsVars

\* _is_duplicate, lines 117-121, and _process_feed, lines 396-408, run by the
\* task of feed f: the registration, the append and the per-feed budget.
RegisterAndAppend(f) ==
    /\ rpc \in {"collect", "exit"}
    /\ wpc[f] = "register"
    /\ LET link == feeds[f][wpos[f]]
           article_data == ("source" :> "RSS") @@ warticle[f]
           feed_results == Append(wresults[f], article_data)
       IN  /\ Register(link, warticle[f].content, TRUE)
           /\ wresults' = [wresults EXCEPT ![f] = feed_results]
           /\ rss_accepted' = Append(rss_accepted, [feed |-> f, url |-> NormalizeUrl(link)])
           /\ wpc' = [wpc EXCEPT ![f] =
                         IF Len(feed_results) >= max_news \div NumDefaultRssFeeds
                         THEN "done" ELSE AfterEntry(f)]
           /\ wpos' = [wpos EXCEPT ![f] = @ + 1]
           /\ warticle' = [warticle EXCEPT ![f] = NoArticle]
    /\ UNCHANGED <<rpc, feeds, collected, rss_all_results, rss_returned>>
    /\ UNCHANGED <<gen, ledgerLog, loadPoint, loadOk, lastCall>>
    /\ UNCHANGED aggVars
    /\ UNCHANGED hybridVars
    /\ UNCHANGED analysisVars
    /\ UNCHANGED similarVars
    /\ UNCHANGED chunkVars
    /\ UNCHANGED pipelineVars
    /\ UNCHANGED raceVars
    /\ UNCHANGED notifyVars
    /\ UNCHANGED wsVars

\* fetch_rss, lines 358-366: the next completed future is merged.
CollectFeed(f) ==
    /\ rpc = "collect"
    /\ wpc[f] = "done"
    /\ f \notin collected
    /\ collected' = collected \cup {f}
    /\ rss_all_results' = rss_all_results \o wresults[f]
    /\ rpc' = IF \/ Len(rss_all_results') >= max_news
                 \/ collected' = FeedUrls
              THEN "exit" ELSE "collect"
    /\ UNCHANGED <<feeds, wpc, wpos, warticle, wresults, rss_returned, rss_accepted>>
    /\ UNCHANGED ledgerVars
    /\ UNCHANGED aggVars
    /\ UNCHANGED hybridVars
    /\ UNCHANGED analysisVars
    /\ UNCHANGED similarVars
    /\ UNCHANGED chunkVars
    /\ UNCHANGED pipelineVars
    /\ UNCHANGED raceVars
    /\ UNCHANGED notifyVars
    /\ UNCHANGED wsVars

\* fetch_rss, lines 352 and 370: the executor has joined its tasks and the
\* merged list is returned.
ReturnRss ==
    /\ rpc = "exit"
    /\ \A f \in FeedUrls : wpc[f] = "done"
    /\ rpc' = "done"
    /\ rss_returned' = Truncate(rss_all_results, max_news)
    /\ UNCHANGED <<feeds, wpc, wpos, warticle, wresults, collected,
                   rss_all_results, rss_accepted>>
    /\ UNCHANGED ledgerVars
    /\ UNCHANGED aggVars
    /\ UNCHANGED hybridVars
    /\ UNCHANGED analysisVars
    /\ UNCHANGED similarVars
    /\ UNCHANGED chunkVars
    /\ UNCHANGED pipelineVars
    /\ UNCHANGED raceVars
    /\ UNCHANGED notifyVars
    /\ UNCHANGED wsVars

\* fetch_rss has submitted one _process_feed task per feed (lines 352-356) on
\* an aggregator with an empty ledger.
InitRss ==
    /\ InitLedgerState
    /\ InitAggState
    /\ InitHybridState
    /\ InitAnalysisState
    /\ InitSimilarState
    /\ InitChunkState
    /\ InitPipelineState
    /\ InitRaceState
    /\ InitNotifyState
    /\ InitWsState
    /\ rpc = "collect"
    /\ feeds \in [FeedUrls -> FeedEntries]
    /\ wpc = [f \in FeedUrls |-> "entry"]
    /\ wpos = [f \in FeedUrls |-> 1]
    /\ warticle = [f \in FeedUrls |-> NoArticle]
    /\ wresults = [f \in FeedUrls |-> << >>]
    /\ collected = {}
    /\ rss_all_results = << >>
    /\ rss_returned = << >>
    /\ rss_accepted = << >>

NextRss ==
    \/ \E f \in FeedUrls, outcome \in FullArticleOutcomes : ProcessEntry(f, outcome)
    \/ \E f \in FeedUrls : CheckDuplicate(f)
    \/ \E f \in FeedUrls : RegisterAndAppend(f)
    \/ \E f \in FeedUrls : CollectFeed(f)
    \/ ReturnRss

SpecRss == InitRss /\ [][NextRss]_vars

-----------------------------------------------------------------------------
(* NewsVectorDB.get_similar_articles (vector_db.py:210-243) *)

\* A Document as analyze_news stores it: its metadata holds the id and the
\* title of the News record (news_analysis_chain.py:210-219).
ArticleDoc(page_content, id, title) ==
    [page_content |-> page_content, metadata |-> [id |-> id, title |-> title]]

\* The documents the store may hold: n1 was analyzed twice, with different
\* processed contents.
ArticleDocs ==
    { ArticleDoc(<<"a">>, "n1", "T1"), ArticleDoc(<<"b">>, "n1", "T1"),
      ArticleDoc(<<"c">>, "n2", "T2"), ArticleDoc(<<"a", " ", "b">>, "n3", "T3") }

\* The article ids a call may name; n9 is not in the store.
ArticleIdsAsked == { "n1", "n2", "n9" }

\* The store's ranking of its documents for the text of the source article,
\* nearest first, with the cosine distances.
ArticleRankings ==
    UNION { { r \in [1..n -> [doc : ArticleDocs, score : 0..MaxDist]] :
                /\ \A i, j \in 1..n : i < j => r[i].doc # r[j].doc
                /\ \A i, j \in 1..n : i < j => r[i].score <= r[j].score }
            : n \in 0..MaxIndexed }

\* similarity_search_with_score(query, k, filter={"id": {"$ne": article_id}})
\* (lines 226-230).
SimilaritySearchExcluding(ranking, k, article_id) ==
    Truncate(SelectSeq(ranking, LAMBDA e : e.doc.metadata.id # article_id), k)

\* The documents similarity_search(query="", k=1, filter={"id": article_id})
\* may return first (lines 214-218).
SourceDocs(ranking, article_id) ==
    { ranking[i].doc : i \in { j \in 1..Len(ranking) :
                                  MatchesFilter(ranking[j].doc, {<<"id", article_id>>}) } }

\* The list get_similar_articles builds from the found documents (lines 233-240).
FormatSimilar(similar_docs, k) ==
    LET top == Truncate(similar_docs, k)
    IN  [i \in 1..Len(top) |->
            [id |-> top[i].doc.metadata.id, title |-> top[i].doc.metadata.title,
             similarity |-> top[i].score]]

\* get_similar_articles(article_id, k) (lines 210-243) when its first search
\* returns found: an error of a search is logged and [] is returned.
GetSimilarArticles(ranking, up, found, article_id, k) ==
    IF ~up[1] THEN << >>
    ELSE IF found = << >> THEN << >>
    ELSE IF ~up[2] THEN << >>
    ELSE FormatSimilar(SimilaritySearchExcluding(ranking, k + 1, article_id), k)

\* One call of get_similar_articles.
GetSimilarArticlesCall(found) ==
    /\ similar_result.state = "idle"
    /\ LET docs == SourceDocs(index, similar_request.article_id)
       IN  IF docs = {} THEN found = << >> ELSE \E doc \in docs : found = <<doc>>
    /\ similar_result' =
           [state |-> "returned",
            articles |-> GetSimilarArticles(index, index_up, found,
                                            similar_request.article_id, similar_request.k)]
    /\ UNCHANGED <<index, index_up, request, hresult, similar_request>>
    /\ UNCHANGED ledgerVars
    /\ UNCHANGED aggVars
    /\ UNCHANGED analysisVars
    /\ UNCHANGED rssVars
    /\ UNCHANGED chunkVars
    /\ UNCHANGED pipelineVars
    /\ UNCHANGED raceVars
    /\ UNCHANGED notifyVars
    /\ UNCHANGED wsVars

InitSimilar ==
    /\ InitLedgerState
    /\ InitAggState
    /\ InitAnalysisState
    /\ InitRssState
    /\ InitChunkState
    /\ InitPipelineState
    /\ InitRaceState
    /\ InitNotifyState
    /\ InitWsState
    /\ index \in ArticleRankings
    /\ index_up \in BOOLEAN \X BOOLEAN
    /\ request = [query |-> << >>, filters |-> {}, k |-> 1, alpha |-> <<1, 2>>]
    /\ hresult = NoResult
    /\ similar_request \in [article_id : ArticleIdsAsked, k : 1..MaxK]
    /\ similar_result = NoSimilar

NextSimilar ==
    \E found \in {<< >>} \cup { <<doc>> : doc \in ArticleDocs } : GetSimilarArticlesCall(found)

SpecSimilar == InitSimilar /\ [][NextSimilar]_vars

-----------------------------------------------------------------------------
(* process_long_content (news_analysis_chain.py:138-181) and the splitter of
   create_text_chunker (63-70). Lengths are counted in units of 200
   characters; the two characters of a "\n\n" separator are below that
   resolution. *)

\* chunk_size=1000 and chunk_overlap=200 (lines 66-67), in units of 200.
ChunkSize == 5
ChunkOverlap == 1

\* The 4000 of lines 178 and 189, in units of 200.
LongContent == 20

\* len(text_splitter.split_text(content)): one chunk for a text that fits in
\* chunk_size, else chunks of chunk_size that overlap by chunk_overlap.
NumChunks(len) ==
    IF len <= ChunkSize THEN 1
    ELSE 1 + ((len - ChunkSize) + (ChunkSize - ChunkOverlap) - 1)
                 \div (ChunkSize - ChunkOverlap)

\* analyze_news hands a content longer than 4000 characters to
\* process_long_content (lines 189-190).
ProcessLongContent(len) ==
    /\ lpc = "idle"
    /\ len > LongContent
    /\ lpc' = "split"
    /\ ldepth' = 1
    /\ ltext' = len
    /\ UNCHANGED <<lchunks, lsummaries, lcombined, lraised>>
    /\ UNCHANGED ledgerVars
    /\ UNCHANGED aggVars
    /\ UNCHANGED hybridVars
    /\ UNCHANGED analysisVars
    /\ UNCHANGED rssVars
    /\ UNCHANGED similarVars
    /\ UNCHANGED pipelineVars
    /\ UNCHANGED raceVars
    /\ UNCHANGED notifyVars
    /\ UNCHANGED wsVars

\* Lines 141-148: split the content; a single chunk is returned as it is.
SplitText ==
    /\ lpc = "split"
    /\ lchunks' = NumChunks(ltext)
    /\ lsummaries' = 0
    /\ lcombined' = 0
    /\ lpc' = IF NumChunks(ltext) <= 1 THEN "returned" ELSE "summarize"
    /\ UNCHANGED <<ldepth, ltext, lraised>>
    /\ UNCHANGED ledgerVars
    /\ UNCHANGED aggVars
    /\ UNCHANGED hybridVars
    /\ UNCHANGED analysisVars
    /\ UNCHANGED rssVars
    /\ UNCHANGED similarVars
    /\ UNCHANGED pipelineVars
    /\ UNCHANGED raceVars
    /\ UNCHANGED notifyVars
    /\ UNCHANGED wsVars

\* One round of the loop of lines 170-172: the summary chain answers with a
\* summary of the next chunk, of any length.
SummarizeChunk(summary_len) ==
    /\ lpc = "summarize"
    /\ lsummaries < lchunks
    /\ lsummaries' = lsummaries + 1
    /\ lcombined' = lcombined + summary_len
    /\ UNCHANGED <<lpc, ldepth, ltext, lchunks, lraised>>
    /\ UNCHANGED ledgerVars
    /\ UNCHANGED aggVars
    /\ UNCHANGED hybridVars
    /\ UNCHANGED analysisVars
    /\ UNCHANGED rssVars
    /\ UNCHANGED similarVars
    /\ UNCHANGED pipelineVars
    /\ UNCHANGED raceVars
    /\ UNCHANGED notifyVars
    /\ UNCHANGED wsVars

\* summary_chain.invoke raises: the exception leaves every frame.
SummaryChainFails ==
    /\ lpc = "summarize"
    /\ lsummaries < lchunks
    /\ lpc' = "raised"
    /\ lraised' = "summary_chain"
    /\ UNCHANGED <<ldepth, ltext, lchunks, lsummaries, lcombined>>
    /\ UNCHANGED ledgerVars
    /\ UNCHANGED aggVars
    /\ UNCHANGED hybridVars
    /\ UNCHANGED analysisVars
    /\ UNCHANGED rssVars
    /\ UNCHANGED similarVars
    /\ UNCHANGED pipelineVars
    /\ UNCHANGED raceVars
    /\ UNCHANGED notifyVars
    /\ UNCHANGED wsVars

\* Lines 175-181: join the summaries; a combined summary longer than 4000
\* characters goes to a new frame of process_long_content, which the
\* interpreter refuses with RecursionError when its stack is full.
CombineSummaries ==
    /\ lpc = "summarize"
    /\ lsummaries = lchunks
    /\ IF lcombined > LongContent
       THEN IF ldepth >= RecursionLimit
            THEN /\ lpc' = "raised"
                 /\ lraised' = "RecursionError"
                 /\ UNCHANGED <<ldepth, ltext>>
            ELSE /\ lpc' = "split"
                 /\ ldepth' = ldepth + 1
                 /\ ltext' = lcombined
                 /\ UNCHANGED lraised
       ELSE /\ lpc' = "returned"
            /\ ltext' = lcombined
            /\ UNCHANGED <<ldepth, lraised>>
    /\ UNCHANGED <<lchunks, lsummaries, lcombined>>
    /\ UNCHANGED ledgerVars
    /\ UNCHANGED aggVars
    /\ UNCHANGED hybridVars
    /\ UNCHANGED analysisVars
    /\ UNCHANGED rssVars
    /\ UNCHANGED similarVars
    /\ UNCHANGED pipelineVars
    /\ UNCHANGED raceVars
    /\ UNCHANGED notifyVars
    /\ UNCHANGED wsVars

InitChunk ==
    /\ InitLedgerState
    /\ InitAggState
    /\ InitHybridState
    /\ InitAnalysisState
    /\ InitRssState
    /\ InitSimilarState
    /\ InitChunkState
    /\ InitPipelineState
    /\ InitRaceState
    /\ InitNotifyState
    /\ InitWsState

NextChunk ==
    \/ \E len \in (LongContent + 1)..MaxContentLen : ProcessLongContent(len)
    \/ SplitText
    \/ \E summary_len \in 0..MaxSummaryLen : SummarizeChunk(summary_len)
    \/ SummaryChainFails
    \/ CombineSummaries

SpecChunk == InitChunk /\ [][NextChunk]_vars

-----------------------------------------------------------------------------
(* Repeated runs of analyze_stock_news (main.py:40-77) on the module's one
   aggregator (main.py:37): get_all_news, then analyze_news for the first
   max_articles of what it returned. *)

\* The NewsAPI entries of these runs: two articles with long descriptions.
PipelineArticles ==
    { [url |-> Url("/1", "", ""), content |-> "c1",
       publishedAt |-> "2024-05-02T00:00:00+00:00", source |-> "dict"],
      [url |-> Url("/2", "", ""), content |-> "c2",
       publishedAt |-> "2024-05-01T00:00:00Z", source |-> "dict"] }

\* The collaborators of analyze_news in these runs: the stores accept every
\* write; the analysis chain answers or raises.
PipelineEnvs ==
    [summary : {"s1"}, llm : {"full", "error"},
     save_ok : {TRUE}, index_ok : {TRUE}, rel_ok : {TRUE}]

\* analyze_stock_news is called (lines 40-45), for the first time or after the
\* previous call has returned: get_all_news begins on the same aggregator.
AnalyzeStockNewsCalled ==
    /\ \/ pc = "idle" /\ apc = "idle"
       \/ apc = "done"
    /\ runs < MaxRuns
    /\ runs' = runs + 1
    /\ registered_before' = fetched_urls
    /\ pc' = "submit"
    /\ seen' = 0
    /\ pending' = << >>
    /\ results' = << >>
    /\ returned' = << >>
    /\ accepted' = << >>
    /\ apc' = "idle"
    /\ news_list' = << >>
    /\ apos' = 1
    /\ aresults' = << >>
    /\ UNCHANGED <<raised, news_articles, vector_docs, entity_relationships,
                   max_articles, alog, relLog, relQuery>>
    /\ UNCHANGED ledgerVars
    /\ UNCHANGED hybridVars
    /\ UNCHANGED rssVars
    /\ UNCHANGED similarVars
    /\ UNCHANGED chunkVars
    /\ UNCHANGED raceVars
    /\ UNCHANGED notifyVars
    /\ UNCHANGED wsVars

\* get_all_news has returned (line 45) and the loop of line 50 begins.
HandOver(n) ==
    /\ pc = "done"
    /\ StartAnalyzeStockNews(returned, n)

InitPipeline ==
    /\ processed_urls = << >>
    /\ fetched_urls = LoadFetchedUrls(processed_urls, TRUE)
    /\ url_content_hash_map = << >>
    /\ clock = 1
    /\ gen = 0
    /\ ledgerLog = << >>
    /\ loadPoint = 0
    /\ loadOk = TRUE
    /\ lastCall = NoCall
    /\ InitAggState
    /\ InitHybridState
    /\ InitAnalysisState
    /\ InitRssState
    /\ InitSimilarState
    /\ InitChunkState
    /\ InitPipelineState
    /\ InitRaceState
    /\ InitNotifyState
    /\ InitWsState

NextPipeline ==
    \/ AnalyzeStockNewsCalled
    \/ \E article \in PipelineArticles : TakeArticle(article, TRUE)
    \/ EndOfArticles
    \/ ReturnNews
    \/ \E n \in 1..MaxBatch : HandOver(n)
    \/ \E env \in PipelineEnvs : AnalyzeArticle(env)
    \/ ReturnResults

SpecPipeline == InitPipeline /\ [][NextPipeline]_vars

-----------------------------------------------------------------------------
(* save_entity_relationship (firebase_store.py:171-201) under callers that
   run at the same time: the read of line 181 and the write of lines 184-199
   are two requests to the store. *)

\* What a caller passes.
RaceArgs ==
    [entity_a : {EntityA}, entity_b : {EntityB, EntityP},
     relationship_type : {MentionedWith},
     strength : Strengths, article_id : ArticleIds]

\* The document id of a call (line 175).
RelationshipId(args) ==
    Md5(FormatRelationship(args.entity_a, args.entity_b, args.relationship_type))

\* The collection before the calls: empty, or holding the record of (A, B).
RaceStores ==
    { << >>,
      SaveEntityRelationship(<< >>, EntityA, EntityB, MentionedWith, 1, "a0") }

\* A caller enters save_entity_relationship.
EnterSave(c, args) ==
    /\ cpc[c] = "idle"
    /\ cpc' = [cpc EXCEPT ![c] = "get"]
    /\ cargs' = [cargs EXCEPT ![c] = args]
    /\ UNCHANGED cexists
    /\ UNCHANGED analysisVars
    /\ UNCHANGED ledgerVars
    /\ UNCHANGED aggVars
    /\ UNCHANGED hybridVars
    /\ UNCHANGED rssVars
    /\ UNCHANGED similarVars
    /\ UNCHANGED chunkVars
    /\ UNCHANGED pipelineVars
    /\ UNCHANGED notifyVars
    /\ UNCHANGED wsVars

\* doc = doc_ref.get() (line 181).
GetDoc(c) ==
    /\ cpc[c] = "get"
    /\ cexists' = [cexists EXCEPT ![c] = RelationshipId(cargs[c]) \in DOMAIN entity_relationships]
    /\ cpc' = [cpc EXCEPT ![c] = "write"]
    /\ UNCHANGED cargs
    /\ UNCHANGED analysisVars
    /\ UNCHANGED ledgerVars
    /\ UNCHANGED aggVars
    /\ UNCHANGED hybridVars
    /\ UNCHANGED rssVars
    /\ UNCHANGED similarVars
    /\ UNCHANGED chunkVars
    /\ UNCHANGED pipelineVars
    /\ UNCHANGED notifyVars
    /\ UNCHANGED wsVars

\* Lines 182-201: update if the document existed at line 181, else set.
WriteDoc(c) ==
    /\ cpc[c] = "write"
    /\ entity_relationships' =
           IF cexists[c]
           THEN UpdateRelationship(entity_relationships, RelationshipId(cargs[c]),
                                   cargs[c].strength, cargs[c].article_id)
           ELSE SetRelationship(entity_relationships, RelationshipId(cargs[c]),
                                cargs[c].entity_a, cargs[c].entity_b,
                                cargs[c].relationship_type,
                                cargs[c].strength, cargs[c].article_id)
    /\ cpc' = [cpc EXCEPT ![c] = "done"]
    /\ UNCHANGED <<cargs, cexists>>
    /\ UNCHANGED <<news_articles, vector_docs, apc, news_list, max_articles,
                   apos, aresults, alog, relLog, relQuery>>
    /\ UNCHANGED ledgerVars
    /\ UNCHANGED aggVars
    /\ UNCHANGED hybridVars
    /\ UNCHANGED rssVars
    /\ UNCHANGED similarVars
    /\ UNCHANGED chunkVars
    /\ UNCHANGED pipelineVars
    /\ UNCHANGED notifyVars
    /\ UNCHANGED wsVars

InitRace ==
    /\ InitLedgerState
    /\ InitAggState
    /\ InitHybridState
    /\ news_articles = << >>
    /\ vector_docs = << >>
    /\ entity_relationships \in RaceStores
    /\ apc = "idle"
    /\ news_list = << >>
    /\ max_articles = 1
    /\ apos = 1
    /\ aresults = << >>
    /\ alog = << >>
    /\ relLog = << >>
    /\ relQuery = NoQuery
    /\ InitRssState
    /\ InitSimilarState
    /\ InitChunkState
    /\ InitPipelineState
    /\ InitRaceState
    /\ InitNotifyState
    /\ InitWsState

NextRace ==
    \/ \E c \in Callers, args \in RaceArgs : EnterSave(c, args)
    \/ \E c \in Callers : GetDoc(c)
    \/ \E c \in Callers : WriteDoc(c)

SpecRace == InitRace /\ [][NextRace]_vars

-----------------------------------------------------------------------------
(* The notification task send_notifications (api.py:594-668), with
   FirebaseClient.query_analyses (firebase_store.py:58-100) and
   save_notification (153-169) *)

\* The users the query of lines 598-602 may answer with, and their watchlists.
NotifyUsers ==
    { << >>,
      << [id |-> "u1", watchlist |-> <<"S1", "S2">>] >>,
      << [id |-> "u1", watchlist |-> <<"S1", "S2">>],
         [id |-> "u2", watchlist |-> <<"S1">>] >> }

NotifySymbols == { "S1", "S2" }

\* What the query of lines 617-625 may answer with for one symbol.
NewsAnswers ==
    { << >>, << [id |-> "n1", title |-> "t1"] >> }

RECURSIVE Flatten(_)
\* The rounds of nested for loops, in the order the loops take them.
Flatten(seqs) ==
    IF seqs = << >> THEN << >> ELSE Head(seqs) \o Flatten(Tail(seqs))

\* The rounds of one iteration of the task (lines 604-628): for each user, for
\* each symbol of the watchlist, for each news item the query answered with.
Rounds(users, news_of) ==
    Flatten([u \in 1..Len(users) |->
        Flatten([w \in 1..Len(users[u].watchlist) |->
            [n \in 1..Len(news_of[users[u].watchlist[w]]) |->
                [user_id |-> users[u].id,
                 symbol |-> users[u].watchlist[w],
                 news |-> news_of[users[u].watchlist[w]][n]]]])])

\* query_analyses(collection, filters) with equality filters (lines 62-100):
\* the ids of the documents every where(field, "==", value) matches and that
\* have the order_by field; a Firestore query with order_by leaves out the
\* documents that lack that field.
QueryAnalyses(coll, filters, order_by) ==
    { id \in DOMAIN coll :
        /\ order_by \in DOMAIN coll[id]
        /\ \A field \in DOMAIN filters :
              field \in DOMAIN coll[id] /\ coll[id][field] = filters[field] }

\* The document save_notification writes (lines 153-169): notification_data
\* with user_id, article_id and sent_at; its id is the md5 of
\* f"{user_id}:{article_id}:{now}".
SaveNotification(coll, user_id, article_id, notification_data, now) ==
    coll @@ (Md5(<<user_id, article_id, now>>) :>
                 (notification_data @@
                      [user_id |-> user_id, article_id |-> article_id, sent_at |-> now]))

\* What the collection may hold when the task starts: nothing, or a document
\* for (u1, n1) that does have a "timestamp" field.
NotifyStores ==
    { << >>,
      Md5(<<"u1", "n1", 0>>) :>
          [title |-> <<"S1", "t1">>, type |-> "alert", read |-> FALSE,
           user_id |-> "u1", article_id |-> "n1", sent_at |-> 0, timestamp |-> 0] }

\* An iteration begins (lines 595-625): the queries for users and news answer.
StartPoll(users, news_of) ==
    /\ npc = "sleep"
    /\ polls < MaxPolls
    /\ polls' = polls + 1
    /\ work' = Rounds(users, news_of)
    /\ npc' = "rounds"
    /\ UNCHANGED <<notifications, pushed>>
    /\ UNCHANGED ledgerVars
    /\ UNCHANGED aggVars
    /\ UNCHANGED hybridVars
    /\ UNCHANGED analysisVars
    /\ UNCHANGED rssVars
    /\ UNCHANGED similarVars
    /\ UNCHANGED chunkVars
    /\ UNCHANGED pipelineVars
    /\ UNCHANGED raceVars
    /\ UNCHANGED wsVars

\* An iteration begins and a query raises: the except clause of line 664 logs
\* the error and the task sleeps.
PollFails ==
    /\ npc = "sleep"
    /\ polls < MaxPolls
    /\ polls' = polls + 1
    /\ UNCHANGED <<notifications, npc, work, pushed>>
    /\ UNCHANGED ledgerVars
    /\ UNCHANGED aggVars
    /\ UNCHANGED hybridVars
    /\ UNCHANGED analysisVars
    /\ UNCHANGED rssVars
    /\ UNCHANGED similarVars
    /\ UNCHANGED chunkVars
    /\ UNCHANGED pipelineVars
    /\ UNCHANGED raceVars
    /\ UNCHANGED wsVars

\* One round of the innermost loop (lines 628-663): the existence check, and
\* for a pair without a notification save_notification and, if the user is
\* connected, the message over the WebSocket.
NotifyRound(connected) ==
    /\ npc = "rounds"
    /\ work # << >>
    /\ LET round == Head(work)
           existing_notifications ==
               QueryAnalyses(notifications,
                             [user_id |-> round.user_id, article_id |-> round.news.id],
                             "timestamp")
           now == Cardinality(DOMAIN notifications) + 1
       IN  IF existing_notifications = {}
           THEN /\ notifications' =
                       SaveNotification(notifications, round.user_id, round.news.id,
                                        [title |-> <<round.symbol, round.news.title>>,
                                         type |-> "alert", read |-> FALSE], now)
                /\ pushed' = IF connected
                             THEN Append(pushed, [user_id |-> round.user_id,
                                                  article_id |-> round.news.id,
                                                  notification_id |->
                                                      Md5(<<round.user_id, round.news.id, now>>)])
                             ELSE pushed
           ELSE UNCHANGED <<notifications, pushed>>
    /\ work' = Tail(work)
    /\ UNCHANGED <<npc, polls>>
    /\ UNCHANGED ledgerVars
    /\ UNCHANGED aggVars
    /\ UNCHANGED hybridVars
    /\ UNCHANGED analysisVars
    /\ UNCHANGED rssVars
    /\ UNCHANGED similarVars
    /\ UNCHANGED chunkVars
    /\ UNCHANGED pipelineVars
    /\ UNCHANGED raceVars
    /\ UNCHANGED wsVars

\* The loops are through; asyncio.sleep(60) (line 668).
EndPoll ==
    /\ npc = "rounds"
    /\ work = << >>
    /\ npc' = "sleep"
    /\ UNCHANGED <<notifications, work, polls, pushed>>
    /\ UNCHANGED ledgerVars
    /\ UNCHANGED aggVars
    /\ UNCHANGED hybridVars
    /\ UNCHANGED analysisVars
    /\ UNCHANGED rssVars
    /\ UNCHANGED similarVars
    /\ UNCHANGED chunkVars
    /\ UNCHANGED pipelineVars
    /\ UNCHANGED raceVars
    /\ UNCHANGED wsVars

InitNotify ==
    /\ InitLedgerState
    /\ InitAggState
    /\ InitHybridState
    /\ InitAnalysisState
    /\ InitRssState
    /\ InitSimilarState
    /\ InitChunkState
    /\ InitPipelineState
    /\ InitRaceState
    /\ InitWsState
    /\ notifications \in NotifyStores
    /\ npc = "sleep"
    /\ work = << >>
    /\ polls = 0
    /\ pushed = << >>

NextNotify ==
    \/ \E users \in NotifyUsers, news_of \in [NotifySymbols -> NewsAnswers] :
          StartPoll(users, news_of)
    \/ PollFails
    \/ \E connected \in BOOLEAN : NotifyRound(connected)
    \/ EndPoll

SpecNotify == InitNotify /\ [][NextNotify]_vars

-----------------------------------------------------------------------------
(* The WebSocket ConnectionManager (api.py:74-93) and websocket_endpoint
   (581-590) *)

\* The client ids of the paths /ws/{client_id}.
ClientIds == { "c1", "c2" }

\* The socket that connects next.
NextSocket == Cardinality({ s \in Sockets : ws_state[s] # "new" }) + 1

\* send_personal_message (lines 86-88): send_text on the socket the map holds
\* for client_id, if it holds one.
SendPersonalMessage(client_id) ==
    IF client_id \in DOMAIN active_connections
    THEN Append(ws_sent, [client_id |-> client_id,
                          socket |-> active_connections[client_id],
                          state |-> ws_state[active_connections[client_id]],
                          connected |-> \E s \in Sockets : /\ ws_client[s] = client_id
                                                           /\ ws_state[s] = "open"])
    ELSE ws_sent

\* disconnect (lines 82-84): the entry of client_id is deleted, whichever
\* socket it holds.
Disconnect(client_id) ==
    [c \in DOMAIN active_connections \ {client_id} |-> active_connections[c]]

\* websocket_endpoint begins (line 583): accept, and the map takes the socket.
Connect(client_id) ==
    /\ NextSocket \in Sockets
    /\ ws_state' = [ws_state EXCEPT ![NextSocket] = "open"]
    /\ ws_client' = [ws_client EXCEPT ![NextSocket] = client_id]
    /\ active_connections' =
           [c \in DOMAIN active_connections \cup {client_id} |->
               IF c = client_id THEN NextSocket ELSE active_connections[c]]
    /\ UNCHANGED ws_sent
    /\ UNCHANGED ledgerVars
    /\ UNCHANGED aggVars
    /\ UNCHANGED hybridVars
    /\ UNCHANGED analysisVars
    /\ UNCHANGED rssVars
    /\ UNCHANGED similarVars
    /\ UNCHANGED chunkVars
    /\ UNCHANGED pipelineVars
    /\ UNCHANGED raceVars
    /\ UNCHANGED notifyVars

\* receive_text returns a text (line 586) and the handler answers (line 588).
Receive(s) ==
    /\ ws_state[s] = "open"
    /\ Len(ws_sent) < MaxSends
    /\ ws_sent' = SendPersonalMessage(ws_client[s])
    /\ UNCHANGED <<active_connections, ws_state, ws_client>>
    /\ UNCHANGED ledgerVars
    /\ UNCHANGED aggVars
    /\ UNCHANGED hybridVars
    /\ UNCHANGED analysisVars
    /\ UNCHANGED rssVars
    /\ UNCHANGED similarVars
    /\ UNCHANGED chunkVars
    /\ UNCHANGED pipelineVars
    /\ UNCHANGED raceVars
    /\ UNCHANGED notifyVars

\* The peer closes the connection; the handler is waiting in receive_text.
PeerCloses(s) ==
    /\ ws_state[s] = "open"
    /\ ws_state' = [ws_state EXCEPT ![s] = "closing"]
    /\ UNCHANGED <<active_connections, ws_client, ws_sent>>
    /\ UNCHANGED ledgerVars
    /\ UNCHANGED aggVars
    /\ UNCHANGED hybridVars
    /\ UNCHANGED analysisVars
    /\ UNCHANGED rssVars
    /\ UNCHANGED similarVars
    /\ UNCHANGED chunkVars
    /\ UNCHANGED pipelineVars
    /\ UNCHANGED raceVars
    /\ UNCHANGED notifyVars

\* receive_text raises WebSocketDisconnect (lines 589-590).
HandleDisconnect(s) ==
    /\ ws_state[s] = "closing"
    /\ ws_state' = [ws_state EXCEPT ![s] = "gone"]
    /\ active_connections' = Disconnect(ws_client[s])
    /\ UNCHANGED <<ws_client, ws_sent>>
    /\ UNCHANGED ledgerVars
    /\ UNCHANGED aggVars
    /\ UNCHANGED hybridVars
    /\ UNCHANGED analysisVars
    /\ UNCHANGED rssVars
    /\ UNCHANGED similarVars
    /\ UNCHANGED chunkVars
    /\ UNCHANGED pipelineVars
    /\ UNCHANGED raceVars
    /\ UNCHANGED notifyVars

\* send_notifications pushes a notification to a user (lines 653-663).
PushNotification(client_id) ==
    /\ Len(ws_sent) < MaxSends
    /\ client_id \in DOMAIN active_connections
    /\ ws_sent' = SendPersonalMessage(client_id)
    /\ UNCHANGED <<active_connections, ws_state, ws_client>>
    /\ UNCHANGED ledgerVars
    /\ UNCHANGED aggVars
    /\ UNCHANGED hybridVars
    /\ UNCHANGED analysisVars
    /\ UNCHANGED rssVars
    /\ UNCHANGED similarVars
    /\ UNCHANGED chunkVars
    /\ UNCHANGED pipelineVars
    /\ UNCHANGED raceVars
    /\ UNCHANGED notifyVars

InitWs ==
    /\ InitLedgerState
    /\ InitAggState
    /\ InitHybridState
    /\ InitAnalysisState
    /\ InitRssState
    /\ InitSimilarState
    /\ InitChunkState
    /\ InitPipelineState
    /\ InitRaceState
    /\ InitNotifyState
    /\ InitWsState

NextWs ==
    \/ \E client_id \in ClientIds : Connect(client_id)
    \/ \E s \in Sockets : Receive(s)
    \/ \E s \in Sockets : PeerCloses(s)
    \/ \E s \in Sockets : HandleDisconnect(s)
    \/ \E client_id \in ClientIds : PushNotification(client_id)

SpecWs == InitWs /\ [][NextWs]_vars

-----------------------------------------------------------------------------
(* The ledger's properties *)

\* The registrations this aggregator made before its latest call.
PriorIdx ==
    (loadPoint + 1) .. (Len(ledgerLog) - (IF lastCall.made /\ ~lastCall.result THEN 1 ELSE 0))

\* How many other URLs were registered after registration i and before this
\* aggregator was constructed.
RegisteredAfter(i) ==
    Cardinality({ ledgerLog[j].resource : j \in (i + 1)..loadPoint } \ {ledgerLog[i].resource})

C5_SameContentOtherUrlIsDuplicate ==
    lastCall.made =>
        ((\E i \in PriorIdx : /\ ledgerLog[i].content = lastCall.content
                              /\ ledgerLog[i].resource # Resource(lastCall.url))
            => lastCall.result = TRUE)

\* The content was accepted at another URL, and this URL was never offered.
C5_Witness ==
    /\ lastCall.made
    /\ lastCall.result = TRUE
    /\ \E i \in PriorIdx : ledgerLog[i].content = lastCall.content
    /\ \A i \in PriorIdx : ledgerLog[i].resource # Resource(lastCall.url)
    /\ NormalizeUrl(lastCall.url) \notin fetched_urls

-----------------------------------------------------------------------------
(* The aggregator's properties *)

\* The metadata.published_at of a candidate, "" when the key is missing.
PublishedAtOf(article) ==
    IF "published_at" \in DOMAIN article.metadata THEN article.metadata.published_at ELSE ""

\* The instant a published_at string denotes, 0 when it denotes none.
Instant(published_at) ==
    CASE published_at = "2024-05-01T00:00:00Z"      -> 1
      [] published_at = "2024-05-02T00:00:00+00:00" -> 2
      [] OTHER                                      -> 0

ReturnedUrls == { returned[i].metadata.url : i \in 1..Len(returned) }

\* The accepted candidates that get_all_news did not return.
Dropped == { i \in 1..Len(accepted) : accepted[i].article.metadata.url \notin ReturnedUrls }

\* C2: the returned list is the top max_news of the candidates the ledger
\* accepted in this call, by the publish timestamp of the article: every
\* accepted candidate that is not returned is no newer than any returned one.
C2_ReturnedIsTopBudget ==
    pc = "done" =>
        /\ Len(returned) = (IF Len(accepted) < max_news THEN Len(accepted) ELSE max_news)
        /\ \A d \in Dropped : \A i \in 1..Len(accepted) :
              accepted[i].article.metadata.url \in ReturnedUrls
                  => Instant(accepted[i].publishedAt) >= Instant(accepted[d].publishedAt)

\* C3: get_all_news never returns more than max_news candidates.
C3_AtMostBudget == pc = "done" => Len(returned) <= max_news

\* More candidates were accepted than the budget holds, and the budget is returned.
C3_Witness ==
    /\ pc = "done"
    /\ Len(accepted) > max_news
    /\ Len(returned) = max_news

\* C4: the returned list is sorted descending by the instant its
\* metadata.published_at denotes, and every candidate whose published_at is
\* missing, empty or no timestamp comes after every candidate that has one.
C4_SortedByRecency ==
    pc = "done" =>
        \A i \in 1..Len(returned) : \A j \in 1..Len(returned) :
            i < j =>
                /\ Instant(PublishedAtOf(returned[i])) >= Instant(PublishedAtOf(returned[j]))
                /\ Instant(PublishedAtOf(returned[j])) > 0
                      => Instant(PublishedAtOf(returned[i])) > 0

\* The sort moved a candidate with a timestamp in front of one without, which
\* the fetcher had found first.
C4_Witness ==
    /\ pc = "done"
    /\ Len(returned) = 2
    /\ Len(results) = 2
    /\ Instant(PublishedAtOf(returned[1])) > 0
    /\ Instant(PublishedAtOf(returned[2])) = 0
    /\ results[1].metadata.url = returned[2].metadata.url
    /\ results[2].metadata.url = returned[1].metadata.url

\* C6: no error inside the fetcher leaves get_all_news.
C6_NoExceptionEscapes == pc # "raised" /\ raised = "none"

\* C24: no article is consumed by the ledger and then dropped: every candidate
\* for which _is_duplicate returned False during a get_all_news call is in the
\* list that call returns.
C24_AcceptedIsReturned ==
    pc = "done" =>
        \A i \in 1..Len(accepted) :
            \E j \in 1..Len(returned) :
                /\ returned[j].metadata.url = accepted[i].article.metadata.url
                /\ returned[j].content = accepted[i].article.content

\* C28: a returned candidate whose API entry carried publishedAt has that
\* value as its metadata.published_at, also when its body came from a
\* full-article fetch.
C28_PublishedAtIsKept ==
    pc = "done" =>
        \A i \in 1..Len(accepted) : \A j \in 1..Len(returned) :
            (/\ returned[j].metadata.url = accepted[i].article.metadata.url
             /\ accepted[i].publishedAt # "")
                => PublishedAtOf(returned[j]) = accepted[i].publishedAt

-----------------------------------------------------------------------------
(* The properties of hybrid_search *)

\* The candidates of the call: what its first search retrieves.
Candidates ==
    SimilaritySearch(index, request.k * 2, request.filters)

\* The set of the elements of a sequence.
Range(seq) == { seq[i] : i \in 1..Len(seq) }

\* The lexical-overlap score of a candidate: the fraction of the query terms
\* present in its text, divided by its length in tokens.
LexicalOverlap(doc) ==
    LET query_terms == QueryTerms(request.query)
        content == Lower(doc.page_content)
    IN  <<TermMatches(query_terms, content),
          Cardinality(query_terms) * Len(Split(content))>>

\* C8: with alpha = 1.0 and a store that answers, hybrid_search returns the
\* first k of the candidates, in the rank order in which the similarity search
\* returned them.
C8_AlphaOneIsSemanticOrder ==
    (hresult.state = "returned" /\ index_up[1] /\ request.alpha = <<1, 1>>)
        => hresult.docs = Truncate(Candidates, request.k)

\* C9: with alpha = 0.0 and a store that answers, hybrid_search returns the
\* candidates with the highest lexical-overlap scores, in descending order of
\* that score, whatever their semantic scores are.
C9_AlphaZeroIsLexicalOrder ==
    (/\ hresult.state = "returned"
     /\ index_up[1]
     /\ request.alpha = <<0, 1>>
     /\ QueryTerms(request.query) # {})
        => /\ Range(hresult.docs) \subseteq Range(Candidates)
           /\ \A i, j \in 1..Len(hresult.docs) :
                  i < j => ~RatLess(LexicalOverlap(hresult.docs[i]),
                                    LexicalOverlap(hresult.docs[j]))
           /\ \A d \in Range(Candidates) \ Range(hresult.docs) :
                  \A i \in 1..Len(hresult.docs) :
                      ~RatLess(LexicalOverlap(hresult.docs[i]), LexicalOverlap(d))

\* Whether the hybrid ranking of the call raises: its first search fails or
\* its scoring does.
HybridRankingRaises ==
    ~HybridAttempt(index, index_up[1], request.query, request.filters,
                   request.k, request.alpha).ok

\* C10: when a step of the hybrid ranking raises, the outcome of hybrid_search
\* is the outcome of the plain similarity search for the same query, k and
\* filters: its documents, or its own failure; the failure of the hybrid
\* ranking does not reach the caller.
C10_FallbackIsPlainSemanticSearch ==
    (hresult.state # "idle" /\ HybridRankingRaises)
        => /\ hresult.path = "fallback"
           /\ IF index_up[2]
              THEN /\ hresult.state = "returned"
                   /\ hresult.error = "none"
                   /\ hresult.docs = SimilaritySearch(index, request.k, request.filters)
              ELSE /\ hresult.state = "raised"
                   /\ hresult.error = "similarity_search failed"

\* A scoring error falls back to a search that returns fewer documents than
\* the candidates retrieved.
C10_Witness ==
    /\ hresult.state = "returned"
    /\ hresult.path = "fallback"
    /\ hresult.logged = "ZeroDivisionError"
    /\ Len(hresult.docs) > 0
    /\ Len(hresult.docs) < Len(Candidates)

-----------------------------------------------------------------------------
(* The properties of analyze_news and analyze_stock_news *)

\* The rounds of the batch in which analyze_news wrote its News record.
SavedRounds == { i \in 1..Len(alog) : alog[i].saved }

\* C11: the id of a News record depends on the raw content only: two analyses
\* of the same raw content get the same id, whatever their processed content,
\* title and metadata are, and are saved under one document id, so that the
\* store holds one News record for that content.
C11_NewsIdIsStable ==
    /\ \A i, j \in 1..Len(alog) :
           (/\ alog[i].returned = "doc"
            /\ alog[j].returned = "doc"
            /\ alog[i].article.content = alog[j].article.content)
               => alog[i].doc.id = alog[j].doc.id
    /\ \A i \in SavedRounds :
           /\ alog[i].doc.id \in DOMAIN news_articles
           /\ news_articles[alog[i].doc.id].content = alog[i].article.content
    /\ \A d1, d2 \in DOMAIN news_articles :
           news_articles[d1].content = news_articles[d2].content => d1 = d2

\* The same long content was analyzed twice with different summaries, both
\* records were written, and the store holds one document.
C11_Witness ==
    /\ \E i, j \in SavedRounds :
           /\ i < j
           /\ alog[i].returned = "doc"
           /\ alog[j].returned = "doc"
           /\ alog[i].article.content = alog[j].article.content
           /\ alog[i].processed_content # alog[j].processed_content
    /\ Cardinality(DOMAIN news_articles) = 1

\* C14: when analyze_news returns None for an article, that call has written no
\* News record to the document store.
C14_FailedAnalysisWritesNothing ==
    \A i \in 1..Len(alog) : alog[i].returned = "None" => ~alog[i].saved

\* C15: a failure of the document store's save during analyze_news reaches the
\* caller as a failure of its own: the call does not end like a parse failure,
\* by returning None.
C15_StorageFailurePropagates ==
    \A i \in 1..Len(alog) : alog[i].failure = "save_analysis" => alog[i].returned # "None"

\* The rounds of the batch in which analyze_news returned a News object.
SuccessfulRounds == SelectSeq(alog, LAMBDA round : round.returned = "doc")

\* C16: a failed article never ends the batch: when analyze_stock_news has
\* returned, analyze_news has been called for every article of the batch, in
\* order, and the list returned holds exactly the articles whose analysis
\* succeeded, in input order.
C16_FailuresDoNotAbortBatch ==
    apc = "done" =>
        /\ Len(alog) = Len(Batch)
        /\ \A i \in 1..Len(alog) : alog[i].article = Batch[i]
        /\ aresults = [i \in 1..Len(SuccessfulRounds) |-> ToDict(SuccessfulRounds[i].doc)]

\* A batch whose first article failed and whose second article was analyzed
\* and returned.
C16_Witness ==
    /\ apc = "done"
    /\ Len(alog) = 2
    /\ alog[1].returned = "None"
    /\ alog[2].returned = "doc"
    /\ Len(aresults) = 1
    /\ aresults[1].content = alog[2].article.content

\* C21: no persisted News record carries a substituted default for sentiment
\* or subject: when the answer of the analysis chain lacks the sentiment object
\* or the subject, analyze_news returns None and has saved nothing, and no
\* document of "news_articles" holds compound_score 0 / category "neutral" or
\* an empty subject in place of a missing value.
C21_NoSubstitutedDefaults ==
    /\ \A i \in 1..Len(alog) :
          alog[i].answer \in {"no_sentiment", "no_subject"}
              => alog[i].returned = "None" /\ ~alog[i].saved
    /\ \A id \in DOMAIN news_articles :
          /\ news_articles[id].sentiment # DefaultSentiment
          /\ news_articles[id].subject # << >>

\* C22: for every successfully analyzed article, exactly one
\* save_entity_relationship(subject, entity, ...) call is made for each entity
\* of the analysis result other than the subject, and none for the subject.
C22_OneCallPerCoMentionedEntity ==
    \A i \in 1..Len(alog) :
        alog[i].returned = "doc" =>
            LET doc == alog[i].doc
                calls == alog[i].calls
            IN  /\ \A e \in 1..Len(doc.entities) :
                      doc.entities[e].name # doc.subject =>
                          Cardinality({ c \in 1..Len(calls) :
                                          /\ calls[c].entity_a = doc.subject
                                          /\ calls[c].entity_b = doc.entities[e].name }) = 1
                /\ \A c \in 1..Len(calls) : calls[c].entity_b # doc.subject

\* C26: the vector store holds at most one entry per News id: analyzing the
\* same raw content again adds no second entry with that id in its metadata.
C26_OneIndexEntryPerId ==
    \A i, j \in 1..Len(vector_docs) :
        vector_docs[i].id = vector_docs[j].id => i = j

-----------------------------------------------------------------------------
(* The properties of concurrent relationship merges *)

\* C27: concurrent merges lose nothing: when two calls of
\* save_entity_relationship on the same (entity_a, entity_b,
\* relationship_type) have both returned, the record's articles hold the
\* article ids of both, whether or not the record existed before.
C27_ConcurrentMergeLosesNothing ==
    (/\ \A c \in Callers : cpc[c] = "done"
     /\ RelationshipId(cargs[1]) = RelationshipId(cargs[2]))
        => /\ RelationshipId(cargs[1]) \in DOMAIN entity_relationships
           /\ \A c \in Callers :
                 \E i \in 1..Len(entity_relationships[RelationshipId(cargs[1])].articles) :
                     entity_relationships[RelationshipId(cargs[1])].articles[i]
                         = cargs[c].article_id

-----------------------------------------------------------------------------
(* The properties of the notification task *)

\* The (user, article) pairs of the rounds the task has gone through or may.
NotifyPairs == { "u1", "u2" } \X { "n1" }

-----------------------------------------------------------------------------
(* The properties of the ConnectionManager *)

\* The socket that connected last under client_id, 0 if none did.
LatestSocket(client_id) ==
    LET mine == { s \in Sockets : ws_client[s] = client_id }
    IN  IF mine = {} THEN 0 ELSE CHOOSE s \in mine : \A t \in mine : t <= s

\* C30: active_connections maps each client_id to its currently open socket:
\* while the socket that connected last under a client_id is open the map
\* holds it (the disconnect of an older socket does not remove it), and no
\* message for a client that has an open socket is sent to a socket that has
\* closed.
C30_MapHoldsOpenSocket ==
    /\ \A client_id \in ClientIds :
          (LatestSocket(client_id) # 0 /\ ws_state[LatestSocket(client_id)] = "open")
              => /\ client_id \in DOMAIN active_connections
                 /\ active_connections[client_id] = LatestSocket(client_id)
    /\ \A i \in 1..Len(ws_sent) : ws_sent[i].connected => ws_sent[i].state = "open"

-----------------------------------------------------------------------------
(* The properties of process_long_content *)

\* C23: process_long_content terminates whatever the summary chain answers:
\* its recursion on the combined summary stays within a maximum depth of its
\* own and never runs until the interpreter's stack is exhausted.
C23_RecursionIsBounded ==
    lpc = "raised" => lraised # "RecursionError"

-----------------------------------------------------------------------------
(* The properties of repeated runs of analyze_stock_news *)

\* The URLs of the articles handed to analyze_news so far, normalized.
Analyzed == { NormalizeUrl(alog[i].article.metadata.url) : i \in 1..Len(alog) }

\* C25: every article the ledger registers as processed is eventually handed
\* to analyze_news: when a run of analyze_stock_news has ended, every URL the
\* ledger had registered in an earlier run has been handed to analyze_news.
C25_RegisteredIsAnalyzed ==
    apc = "done" => registered_before \subseteq Analyzed

-----------------------------------------------------------------------------
(* The properties of the entity relationships *)

\* The documents of the collection that record the relationship (a, b, t).
RecordsFor(entity_a, entity_b, relationship_type) ==
    { d \in DOMAIN entity_relationships :
          /\ entity_relationships[d].entity_a = entity_a
          /\ entity_relationships[d].entity_b = entity_b
          /\ entity_relationships[d].relationship_type = relationship_type }

\* Whether two save calls name the same (entity_a, entity_b, relationship_type).
SameTriple(call1, call2) ==
    /\ call1.entity_a = call2.entity_a
    /\ call1.entity_b = call2.entity_b
    /\ call1.relationship_type = call2.relationship_type

\* C12: after two saves in a row of the same (A, B, t), the first ones of that
\* triple, the store holds exactly one record for (A, B, t), whose strength is
\* that of the second save and whose articles are the two article ids; and the
\* article id of every save made so far is still in the articles of its record.
C12_SequentialMerge ==
    LET n == Len(relLog)
    IN  /\ (/\ n >= 2
            /\ SameTriple(relLog[n - 1], relLog[n])
            /\ \A i \in 1..(n - 2) : ~SameTriple(relLog[i], relLog[n]))
               => LET recs == RecordsFor(relLog[n].entity_a, relLog[n].entity_b,
                                         relLog[n].relationship_type)
                  IN  /\ Cardinality(recs) = 1
                      /\ \A d \in recs :
                             /\ entity_relationships[d].strength = relLog[n].strength
                             /\ Range(entity_relationships[d].articles)
                                    = {relLog[n - 1].article_id, relLog[n].article_id}
        /\ \A i \in 1..n :
               LET d == Md5(FormatRelationship(relLog[i].entity_a, relLog[i].entity_b,
                                               relLog[i].relationship_type))
               IN  /\ d \in DOMAIN entity_relationships
                   /\ relLog[i].article_id \in Range(entity_relationships[d].articles)

\* C13: a saved relationship is found from either position: a
\* get_related_stocks call for an entity of a saved pair, with a limit that
\* the matching records do not exceed, gets the record of that pair, and
\* reports the other entity of the pair for it.
C13_DiscoverableFromEitherPosition ==
    relQuery.made =>
        \A i \in 1..Len(relLog) :
            (/\ relQuery.symbol \in {relLog[i].entity_a, relLog[i].entity_b}
             /\ Cardinality(Where(entity_relationships, "entity_a", relQuery.symbol))
                  + Cardinality(Where(entity_relationships, "entity_b", relQuery.symbol))
                    <= relQuery.limit)
                => \E j \in 1..Len(relQuery.relationships) :
                       /\ relQuery.relationships[j].entity_a = relLog[i].entity_a
                       /\ relQuery.relationships[j].entity_b = relLog[i].entity_b
                       /\ relQuery.relationships[j].relationship_type
                              = relLog[i].relationship_type
                       /\ relQuery.related[j].symbol
                              = IF relLog[i].entity_a = relQuery.symbol
                                THEN relLog[i].entity_b ELSE relLog[i].entity_a

-----------------------------------------------------------------------------
(* The properties of fetch_rss *)

\* C17: whatever the interleaving of the _process_feed tasks, _is_duplicate
\* returns False at most once for a normalized URL, and no URL is twice in the
\* list fetch_rss returns.
C17_UrlAcceptedAtMostOnce ==
    /\ \A i, j \in 1..Len(rss_accepted) :
           i # j => rss_accepted[i].url # rss_accepted[j].url
    /\ \A i, j \in 1..Len(rss_returned) :
           i # j => NormalizeUrl(rss_returned[i].metadata.url)
                        # NormalizeUrl(rss_returned[j].metadata.url)

-----------------------------------------------------------------------------
(* The properties of get_similar_articles *)

\* C18: get_similar_articles(id, k) returns at most k entries, none of them
\* with the id of the source article, in descending order of their similarity
\* value.
C18_SimilarArticlesSorted ==
    similar_result.state = "returned" =>
        /\ Len(similar_result.articles) <= similar_request.k
        /\ \A i \in 1..Len(similar_result.articles) :
               similar_result.articles[i].id # similar_request.article_id
        /\ \A i, j \in 1..Len(similar_result.articles) :
               i < j => similar_result.articles[i].similarity
                            >= similar_result.articles[j].similarity

-----------------------------------------------------------------------------
(* The properties of the hybrid ranking *)

\* The candidates of the call with their distances.
ScoredCandidates ==
    SimilaritySearchWithScore(index, request.k * 2, request.filters)

\* alpha * normalized_semantic + (1 - alpha) * normalized_lexical of every
\* candidate, each score list divided by its largest entry.
CombinedScores ==
    LET n == Len(ScoredCandidates)
        query_terms == QueryTerms(request.query)
        semantic == [i \in 1..n |-> <<ScoredCandidates[i].score, 1>>]
        lexical == [i \in 1..n |-> KeywordScore(query_terms, ScoredCandidates[i].doc)]
        max_semantic == RatMax(semantic)
        max_lexical == RatMax(lexical)
    IN  [i \in 1..n |->
            RatAdd(RatMul(request.alpha, RatDiv(semantic[i], max_semantic)),
                   RatMul(<<request.alpha[2] - request.alpha[1], request.alpha[2]>>,
                          RatDiv(lexical[i], max_lexical)))]

\* The semantic ranks of the documents of a list of candidates.
RanksOf(docs) ==
    [a \in 1..Len(docs) |->
        CHOOSE i \in 1..Len(ScoredCandidates) : ScoredCandidates[i].doc = docs[a]]

\* Candidate i comes before candidate j under the scores: its combined score
\* is higher, or the scores are equal and its semantic rank is better.
Before(scores, i, j) ==
    \/ RatLess(scores[j], scores[i])
    \/ /\ ~RatLess(scores[i], scores[j])
       /\ i < j

\* C19: on the non-error path hybrid_search returns at most k documents, the
\* candidates of the highest combined scores in descending order of that
\* score, candidates of equal combined score in their semantic rank order.
C19_OrderedByCombinedScore ==
    hresult.path = "hybrid" =>
        /\ Len(hresult.docs) <= request.k
        /\ Range(hresult.docs) \subseteq Range(Candidates)
        /\ LET scores == CombinedScores
               ranks == RanksOf(hresult.docs)
               left == { i \in 1..Len(ScoredCandidates) :
                           \A a \in 1..Len(ranks) : ranks[a] # i }
           IN  /\ \A a, b \in 1..Len(ranks) :
                      a < b => Before(scores, ranks[a], ranks[b])
               /\ left # {} => Len(hresult.docs) = request.k
               /\ \A i \in left, a \in 1..Len(ranks) : Before(scores, ranks[a], i)

\* Two returned documents have the same combined score, and the ranking has
\* changed the order of the candidates.
C19_Witness ==
    /\ hresult.path = "hybrid"
    /\ LET scores == CombinedScores
           ranks == RanksOf(hresult.docs)
       IN  \E a, b \in 1..Len(ranks) :
               /\ a < b
               /\ ~RatLess(scores[ranks[a]], scores[ranks[b]])
               /\ ~RatLess(scores[ranks[b]], scores[ranks[a]])
    /\ hresult.docs # Truncate(Candidates, request.k)

\* Whether all the scores of a list are equal.
AllEqual(scores) ==
    \A i, j \in 1..Len(scores) : ~RatLess(scores[i], scores[j])

\* C20: when the store answers with candidates whose semantic scores are all
\* equal, or whose lexical scores are all equal, zero included, no division
\* error occurs: the result comes from the hybrid ranking, not from the
\* fallback.
C20_NormalizationGuardsEqualScores ==
    (/\ hresult.state # "idle"
     /\ index_up[1]
     /\ \/ AllEqual([i \in 1..Len(ScoredCandidates) |-> <<ScoredCandidates[i].score, 1>>])
        \/ AllEqual([i \in 1..Len(ScoredCandidates) |->
                        KeywordScore(QueryTerms(request.query), ScoredCandidates[i].doc)]))
        => hresult.path = "hybrid"

=============================================================================
